---- MODULE Spec2Model ----
(***************************************************************************)
(* Jagged reductions of awkward-1.0: the ListOffsetArray layer             *)
(* (ListOffsetArray.cpp), the reducer kernels it calls (declared in        *)
(* reducers.h) and the Content operations it relies on.                    *)
(*                                                                         *)
(* C arrays are sequences; the C index i is the sequence index i + 1.      *)
(***************************************************************************)
EXTENDS Integers, Sequences, FiniteSets, TLC

\* ------------------------------------------------------------------ bounds

\* longest content buffer of an enumerated list layer
MaxLen == 3
\* most sublists of an enumerated list layer
MaxLists == 2
\* largest outlength of an enumerated call
MaxOut == 2
\* longest input of an enumerated kernel call
MaxKernelLen == 3
\* kernel inputs take values in 0 .. MaxVal (and NaN)
MaxVal == 2

\* ------------------------------------------------------------------ helpers

Min2(a, b) == IF a <= b THEN a ELSE b

Max2(a, b) == IF a < b THEN b ELSE a

RECURSIVE SetMax(_)
SetMax(S) ==
  LET x == CHOOSE y \in S : TRUE
  IN  IF S = {x} THEN x ELSE Max2(x, SetMax(S \ {x}))

RECURSIVE SetSum(_, _)
\* the sum of f[k] over the k of S
SetSum(f, S) ==
  IF S = {} THEN 0
  ELSE LET x == CHOOSE y \in S : TRUE
       IN  f[x] + SetSum(f, S \ {x})

RECURSIVE Pow2(_)
Pow2(n) == IF n = 0 THEN 1 ELSE 2 * Pow2(n - 1)

\* the sequences over S of length exactly n, and of length at most n
SeqsOfLen(S, n) == [1..n -> S]
SeqsUpTo(S, n) == UNION {SeqsOfLen(S, k) : k \in 0..n}

IsNonDecreasing(s) == \A i \in 1..(Len(s) - 1) : s[i] <= s[i + 1]

\* ------------------------------------------------------------------ contents

NumpyArray(data) == [class |-> "NumpyArray", data |-> data]

ListOffsetArray64(offsets, content) ==
  [class |-> "ListOffsetArray64", offsets |-> offsets, content |-> content]

ListArray64(starts, stops, content) ==
  [class |-> "ListArray64", starts |-> starts, stops |-> stops, content |-> content]

\* the list layer with 32-bit signed and with 32-bit unsigned offsets
ListOffsetArray32(offsets, content) ==
  [class |-> "ListOffsetArray32", offsets |-> offsets, content |-> content]

ListOffsetArrayU32(offsets, content) ==
  [class |-> "ListOffsetArrayU32", offsets |-> offsets, content |-> content]

\* ListOffsetArrayOf<T> for the three T
ListClasses == {"ListOffsetArray32", "ListOffsetArrayU32", "ListOffsetArray64"}

\* ListArrayOf<T> for the three T
ListArrayClasses == {"ListArray32", "ListArrayU32", "ListArray64"}

\* the ListArrayOf<T> of the T of a ListOffsetArrayOf<T> or ListArrayOf<T>
ListArrayClassOf(class) ==
  CASE class \in {"ListOffsetArray32", "ListArray32"} -> "ListArray32"
    [] class \in {"ListOffsetArrayU32", "ListArrayU32"} -> "ListArrayU32"
    [] class \in {"ListOffsetArray64", "ListArray64"} -> "ListArray64"

RegularArray(content, size) ==
  [class |-> "RegularArray", content |-> content, size |-> size]

\* a collaborator outside the list layer (a union, a record): the list layer
\* sees its length and its branch_depth only
ExternalArray(branches, depth, length) ==
  [class |-> "ExternalArray", branches |-> branches, depth |-> depth,
   length |-> length]

\* what reduce_next of such a collaborator was called with
ExternalReduced(negaxis, starts, parents, outlength, keepdims) ==
  [class |-> "ExternalReduced", negaxis |-> negaxis, starts |-> starts,
   parents |-> parents, outlength |-> outlength, keepdims |-> keepdims]

\* the record of the fields contents[1], contents[2], ...
RecordArray(contents) == [class |-> "RecordArray", contents |-> contents]

\* an index returned on its own
Index64(data) == [class |-> "Index64", data |-> data]

\* the two values a method returns as a pair
Pair(first, second) == [class |-> "Pair", first |-> first, second |-> second]

\* the answer of a method that is not the list layer's: which, and on what
ExternalCall(method, on, depth) ==
  [class |-> "ExternalCall", method |-> method, on |-> on, depth |-> depth]

\* a thrown exception in place of a returned array
Thrown(kind, message) == [class |-> "Error", kind |-> kind, message |-> message]

\* util::handle_error of failure(message, identity, attempt): thrown, with the
\* element and the index the failure names (kSliceNone where it names none)
kSliceNone == -2147483647

Failure(message, identity, attempt) ==
  [class |-> "Error", kind |-> "invalid_argument", message |-> message,
   identity |-> identity, attempt |-> attempt]

IsError(c) == c.class = "Error"

\* no array, no error
None == [class |-> "None"]

\* ------------------------------------------------------------------ reducers

\* the float "not a number" among the inputs of argmin/argmax
NaN == -1

ReducerNames ==
  {"count", "countnonzero", "sum", "prod", "min", "max", "argmin", "argmax"}

\* a reducer; identity is the caller-provided identity of min and max
Reducer(name, identity) == [name |-> name, identity |-> identity]

IsArg(reducer) == reducer.name \in {"argmin", "argmax"}

\* a slip: every output slot starts at 0
IdentityZero(reducer) == 0

\* step 1 of a reducer: the value every output slot starts with
Identity(reducer) ==
  CASE reducer.name \in {"count", "countnonzero", "sum"} -> 0
    [] reducer.name = "prod" -> 1
    [] reducer.name \in {"min", "max"} -> reducer.identity
    [] reducer.name \in {"argmin", "argmax"} -> -1

\* step 2 of a reducer: in[k] combined into the accumulator
Combine(reducer, acc, x) ==
  CASE reducer.name = "count" -> acc + 1
    [] reducer.name = "countnonzero" -> IF x # 0 THEN acc + 1 ELSE acc
    [] reducer.name = "sum" -> acc + x
    [] reducer.name = "prod" -> acc * x
    [] reducer.name = "min" -> IF x < acc THEN x ELSE acc
    [] reducer.name = "max" -> IF x > acc THEN x ELSE acc

\* a slip: an equal value replaces the earlier one
BeatsOrTies(reducer, x, best) ==
  /\ x # NaN
  /\ \/ best = NaN
     \/ IF reducer.name = "argmin" THEN x <= best ELSE x >= best

\* x improves on the current best: any non-NaN beats NaN, an equal value
\* does not replace the earlier one
Beats(reducer, x, best) ==
  /\ x # NaN
  /\ \/ best = NaN
     \/ IF reducer.name = "argmin" THEN x < best ELSE x > best

RECURSIVE reduce_loop_absolute(_, _, _, _, _, _)
\* a slip: argmin/argmax store k, not k - starts[parents[k]]
reduce_loop_absolute(reducer, fromptr, starts, parents, k, toptr) ==
  IF k >= Len(parents) THEN toptr
  ELSE
    LET parent == parents[k + 1]
        old == toptr[parent + 1]
        new == IF IsArg(reducer)
               THEN IF \/ old = -1
                       \/ Beats(reducer, fromptr[k + 1], fromptr[old + 1])
                    THEN k
                    ELSE old
               ELSE Combine(reducer, old, fromptr[k + 1])
    IN  reduce_loop_absolute(reducer, fromptr, starts, parents, k + 1,
                             [toptr EXCEPT ![parent + 1] = new])

RECURSIVE reduce_loop(_, _, _, _, _, _)
reduce_loop(reducer, fromptr, starts, parents, k, toptr) ==
  IF k >= Len(parents) THEN toptr
  ELSE
    LET parent == parents[k + 1]
        start == starts[parent + 1]
        old == toptr[parent + 1]
        new == IF IsArg(reducer)
               THEN IF \/ old = -1
                       \/ Beats(reducer, fromptr[k + 1], fromptr[old + start + 1])
                    THEN k - start
                    ELSE old
               ELSE Combine(reducer, old, fromptr[k + 1])
    IN  reduce_loop(reducer, fromptr, starts, parents, k + 1,
                    [toptr EXCEPT ![parent + 1] = new])

\* a slip: count takes every group for one run of parents, and counts from
\* the group's first position to its last
awkward_reduce_runs(reducer, fromptr, starts, parents, outlength) ==
  IF reducer.name # "count"
  THEN reduce_loop(reducer, fromptr, starts, parents, 0,
                   [j \in 1..outlength |-> Identity(reducer)])
  ELSE [j \in 1..outlength |->
          IF \A k \in 1..Len(parents) : parents[k] # j - 1 THEN 0
          ELSE SetMax({k \in 1..Len(parents) : parents[k] = j - 1})
                 + SetMax({-k : k \in {m \in 1..Len(parents) :
                                         parents[m] = j - 1}}) + 1]

\* awkward_reduce_<reducer>_<type>_64: out[outlength] of the input grouped by
\* parents (starts is read by argmin/argmax alone)
awkward_reduce(reducer, fromptr, starts, parents, outlength) ==
  reduce_loop(reducer, fromptr, starts, parents, 0,
              [j \in 1..outlength |-> Identity(reducer)])

\* ------------------------------------------------------------------ integer accumulators

\* the accumulator types of the integer sum and prod kernels
AccumulatorTypes == {"int64", "uint64", "int32", "uint32"}

IsSigned(type) == type \in {"int64", "int32"}

\* sizeof(type)
Bytes(type) == IF type \in {"int64", "uint64"} THEN 8 ELSE 4

RECURSIVE WordOf(_, _)
\* a machine integer is the sequence of its bytes, the lowest first; this is
\* the n-byte pattern of the integer v (two's complement when v < 0)
WordOf(v, n) ==
  IF n = 0 THEN <<>> ELSE <<v % 256>> \o WordOf(v \div 256, n - 1)

RECURSIVE AddFrom(_, _, _, _)
AddFrom(a, b, i, carry) ==
  IF i > Len(a) THEN <<>>
  ELSE <<(a[i] + b[i] + carry) % 256>>
         \o AddFrom(a, b, i + 1, (a[i] + b[i] + carry) \div 256)

RECURSIVE CarryOut(_, _, _, _)
CarryOut(a, b, i, carry) ==
  IF i > Len(a) THEN carry
  ELSE CarryOut(a, b, i + 1, (a[i] + b[i] + carry) \div 256)

\* a slip: an addition that overflows stays at the largest pattern
AddWordSaturating(a, b) ==
  IF CarryOut(a, b, 1, 0) = 1 THEN [i \in 1..Len(a) |-> 255]
  ELSE AddFrom(a, b, 1, 0)

\* toptr[parent] += x in an accumulator of Len(a) bytes: the carry out of the
\* highest byte is lost
AddWord(a, b) == AddFrom(a, b, 1, 0)

RECURSIVE ColumnSum(_, _, _, _)
\* the sum of the a[i] * b[j] that weigh 256^(k - 1)
ColumnSum(a, b, k, i) ==
  IF i > k THEN 0 ELSE a[i] * b[k + 1 - i] + ColumnSum(a, b, k, i + 1)

RECURSIVE MulFrom(_, _, _, _)
MulFrom(a, b, k, carry) ==
  IF k > Len(a) THEN <<>>
  ELSE <<(ColumnSum(a, b, k, 1) + carry) % 256>>
         \o MulFrom(a, b, k + 1, (ColumnSum(a, b, k, 1) + carry) \div 256)

\* toptr[parent] *= x in an accumulator of Len(a) bytes: the bytes above the
\* highest are lost
MulWord(a, b) == MulFrom(a, b, 1, 0)

RECURSIVE reduce_words(_, _, _, _, _)
\* for (k = 0; k < lenparents; k++) toptr[parents[k]] <op>= fromptr[k]
reduce_words(name, fromptr, parents, k, toptr) ==
  IF k >= Len(parents) THEN toptr
  ELSE reduce_words(name, fromptr, parents, k + 1,
         [toptr EXCEPT ![parents[k + 1] + 1] =
            IF name = "sum" THEN AddWord(@, fromptr[k + 1])
            ELSE MulWord(@, fromptr[k + 1])])

\* awkward_reduce_sum_<type>_<type>_64
awkward_reduce_sum_64(type, fromptr, parents, outlength) ==
  reduce_words("sum", fromptr, parents, 0,
               [j \in 1..outlength |-> WordOf(0, Bytes(type))])

\* awkward_reduce_prod_<type>_<type>_64
awkward_reduce_prod_64(type, fromptr, parents, outlength) ==
  reduce_words("prod", fromptr, parents, 0,
               [j \in 1..outlength |-> WordOf(1, Bytes(type))])

\* ------------------------------------------------------------------ list kernels

awkward_listoffsetarray_reduce_global_startstop_64(offsets, length) ==
  [globalstart |-> offsets[1], globalstop |-> offsets[length + 1]]

\* the length of sublist i
Count(offsets, i) == offsets[i + 2] - offsets[i + 1]

awkward_listoffsetarray_reduce_nonlocal_maxcount_offsetscopy_64(offsets, length) ==
  [maxcount |-> SetMax({0} \cup {Count(offsets, i) : i \in 0..(length - 1)}),
   offsetscopy |-> [i \in 1..(length + 1) |-> offsets[i]]]

RECURSIVE SlotOrderBySublist(_, _, _, _)
\* a slip: all of sublist 0, then all of sublist 1, ...
SlotOrderBySublist(offsets, length, maxcount, n) ==
  IF n >= maxcount * length THEN <<>>
  ELSE LET c == n % maxcount
           i == n \div maxcount
       IN  (IF Count(offsets, i) > c THEN << <<c, i>> >> ELSE <<>>)
             \o SlotOrderBySublist(offsets, length, maxcount, n + 1)

RECURSIVE SlotOrder(_, _, _, _)
\* the pairs <<c, i>> (position within the sublist, sublist) of all elements,
\* first by c and within one c by i, from the linear position n on
SlotOrder(offsets, length, maxcount, n) ==
  IF n >= maxcount * length THEN <<>>
  ELSE LET c == n \div length
           i == n % length
       IN  (IF Count(offsets, i) > c THEN << <<c, i>> >> ELSE <<>>)
             \o SlotOrder(offsets, length, maxcount, n + 1)

\* the unwritten entries of an Index64 that a kernel fills only in part
Unwritten == -1

\* the first position of d in nextparents
FirstOf(nextparents, d) ==
  CHOOSE k \in 1..Len(nextparents) :
    /\ nextparents[k] = d
    /\ \A m \in 1..(k - 1) : nextparents[m] # d

\* a slip: distincts is not filled with -1 first, an absent slot holds 0
PreparenextOutUnfilled(nextcarry, nextparents, distinctslen, offsetscopy, offsets, length) ==
  [nextcarry |-> nextcarry,
   nextparents |-> nextparents,
   maxnextparents |->
     SetMax({0} \cup {nextparents[k] : k \in 1..Len(nextparents)}),
   distincts |->
     [d \in 1..distinctslen |->
        IF \E k \in 1..Len(nextparents) : nextparents[k] = d - 1
        THEN nextcarry[FirstOf(nextparents, d - 1)]
        ELSE 0],
   offsetscopy |->
     [i \in 1..(length + 1) |->
        IF i <= length THEN offsets[i + 1] ELSE offsetscopy[i]]]

\* what preparenext leaves behind, given the two arrays it fills in slot order
PreparenextOut(nextcarry, nextparents, distinctslen, offsetscopy, offsets, length) ==
  [nextcarry |-> nextcarry,
   nextparents |-> nextparents,
   maxnextparents |->
     SetMax({0} \cup {nextparents[k] : k \in 1..Len(nextparents)}),
   distincts |->
     [d \in 1..distinctslen |->
        IF \E k \in 1..Len(nextparents) : nextparents[k] = d - 1
        THEN nextcarry[FirstOf(nextparents, d - 1)]
        ELSE -1],
   offsetscopy |->
     [i \in 1..(length + 1) |->
        IF i <= length THEN offsets[i + 1] ELSE offsetscopy[i]]]

PreparenextIn(order, distinctslen, offsetscopy, offsets, length, parents, maxcount) ==
  PreparenextOut(
    [k \in 1..Len(order) |-> offsetscopy[order[k][2] + 1] + order[k][1]],
    [k \in 1..Len(order) |-> parents[order[k][2] + 1] * maxcount + order[k][1]],
    distinctslen, offsetscopy, offsets, length)

\* nextcarry: the element positions by position within the sublist, then by
\* sublist; nextparents: parent * maxcount + position within the sublist;
\* distincts[parent * maxcount + c]: the flat index of a c-th element of the
\* group, or -1; offsetscopy: advanced to the end of every sublist
awkward_listoffsetarray_reduce_nonlocal_preparenext_64(nextlen, distinctslen, offsetscopy, offsets, length, parents, maxcount) ==
  PreparenextIn(SlotOrder(offsets, length, maxcount, 0), distinctslen,
                offsetscopy, offsets, length, parents, maxcount)

\* nextstarts[p] is the first k with nextparents[k] = p
awkward_listoffsetarray_reduce_nonlocal_nextstarts_64(nextstartslen, nextparents, nextlen) ==
  [p \in 1..nextstartslen |->
     IF \E k \in 1..nextlen : nextparents[k] = p - 1
     THEN FirstOf(nextparents, p - 1) - 1
     ELSE Unwritten]

\* gaps[j] counts the groups before j that no sublist belongs to
awkward_listoffsetarray_reduce_nonlocal_findgaps_64(gapslen, parents, lenparents) ==
  [j \in 1..gapslen |->
     Cardinality({g \in 0..(j - 2) :
                    \A i \in 1..lenparents : parents[i] # g})]

\* the number of c for which the slots (j, 0) .. (j, c) are all present
SlotRun(distincts, maxcount, j) ==
  Cardinality({c \in 0..(maxcount - 1) :
                 \A b \in 0..c : distincts[j * maxcount + b + 1] # -1})

OutstartsstopsOf(distincts, maxcount, outlength) ==
  [outstarts |-> [j \in 1..outlength |-> (j - 1) * maxcount],
   outstops |-> [j \in 1..outlength |->
                   (j - 1) * maxcount + SlotRun(distincts, maxcount, j - 1)]]

\* slot (j, c) is present iff distincts[j * maxcount + c] # -1; the run of
\* present c of group j is the interval of output j
awkward_listoffsetarray_reduce_nonlocal_outstartsstops_64(distincts, lendistincts, gaps, outlength) ==
  OutstartsstopsOf(distincts,
                   IF outlength = 0 THEN 0 ELSE lendistincts \div outlength,
                   outlength)

\* every element of sublist i of the content trimmed to
\* [offsets[0], offsets[length]) receives parent i
awkward_listoffsetarray_reduce_local_nextparents_64(offsets, length) ==
  [k \in 1..(offsets[length + 1] - offsets[1]) |->
     CHOOSE i \in 0..(length - 1) :
       /\ offsets[i + 1] - offsets[1] <= k - 1
       /\ k - 1 < offsets[i + 2] - offsets[1]]

\* outoffsets[j + 1] - outoffsets[j] is the number of k with parents[k] = j
awkward_listoffsetarray_reduce_local_outoffsets_64(parents, lenparents, outlength) ==
  [j \in 1..(outlength + 1) |->
     Cardinality({k \in 1..lenparents : parents[k] < j - 1})]


\* ------------------------------------------------------------------ sorting kernels

RECURSIVE Insert(_, _, _)
\* the pair x put into the sorted sequence s of <<value, index>> pairs, after
\* every pair it does not precede (stable)
Insert(s, x, ascending) ==
  IF s = <<>> THEN <<x>>
  ELSE IF (IF ascending THEN x[1] < Head(s)[1] ELSE x[1] > Head(s)[1])
       THEN <<x>> \o s
       ELSE <<Head(s)>> \o Insert(Tail(s), x, ascending)

RECURSIVE SortPairs(_, _, _)
SortPairs(s, n, ascending) ==
  IF n = 0 THEN <<>>
  ELSE Insert(SortPairs(s, n - 1, ascending), s[n], ascending)

\* the first and one-past-last position of the run of equal parents around k
RunStart(parents, k) ==
  CHOOSE a \in 1..k :
    /\ \A m \in a..k : parents[m] = parents[k]
    /\ a = 1 \/ parents[a - 1] # parents[k]

RunStop(parents, k) ==
  CHOOSE b \in k..Len(parents) :
    /\ \A m \in k..b : parents[m] = parents[k]
    /\ b = Len(parents) \/ parents[b + 1] # parents[k]

\* the sorted <<value, index within the run>> pairs of the run around k
SortedRun(fromptr, parents, k, ascending) ==
  LET a == RunStart(parents, k)
      b == RunStop(parents, k)
  IN  SortPairs([m \in 1..(b - a + 1) |-> <<fromptr[a + m - 1], m - 1>>],
                b - a + 1, ascending)

\* the leaf sort kernel: every run of equal parents sorted in place
awkward_sort(fromptr, parents, ascending) ==
  [k \in 1..Len(parents) |->
     SortedRun(fromptr, parents, k, ascending)[k - RunStart(parents, k) + 1][1]]

\* the leaf argsort kernel: the position within its run of the element that
\* the sort puts at k
awkward_argsort(fromptr, parents, ascending) ==
  [k \in 1..Len(parents) |->
     SortedRun(fromptr, parents, k, ascending)[k - RunStart(parents, k) + 1][2]]

\* outcarry, the inverse of the permutation nextcarry
awkward_listoffsetarray_local_preparenext_64(nextcarry, nextlen) ==
  [m \in 1..nextlen |->
     (CHOOSE k \in 1..nextlen :
        Cardinality({n \in 1..nextlen : nextcarry[n] < nextcarry[k]}) = m - 1) - 1]

\* ------------------------------------------------------------------ Content

length(self) ==
  CASE self.class = "NumpyArray" -> Len(self.data)
    [] self.class \in ListClasses -> Len(self.offsets) - 1
    [] self.class \in ListArrayClasses -> Len(self.starts)
    [] self.class = "ExternalArray" -> self.length

RECURSIVE branch_depth(_)
\* <<branches, depth>>
branch_depth(self) ==
  CASE self.class = "NumpyArray" -> <<FALSE, 1>>
    [] self.class = "ExternalArray" -> <<self.branches, self.depth>>
    [] self.class \in ListClasses \cup ListArrayClasses ->
         LET content_depth == branch_depth(self.content)
         IN  <<content_depth[1], content_depth[2] + 1>>

make_starts(offsets) == [i \in 1..(Len(offsets) - 1) |-> offsets[i]]
make_stops(offsets) == [i \in 1..(Len(offsets) - 1) |-> offsets[i + 1]]

\* select elements by an index vector
carry(self, index) ==
  CASE self.class = "NumpyArray" ->
         NumpyArray([k \in 1..Len(index) |-> self.data[index[k] + 1]])
    [] self.class \in ListClasses ->
         [class |-> ListArrayClassOf(self.class),
          starts |-> [k \in 1..Len(index) |-> make_starts(self.offsets)[index[k] + 1]],
          stops |-> [k \in 1..Len(index) |-> make_stops(self.offsets)[index[k] + 1]],
          content |-> self.content]
    [] self.class \in ListArrayClasses ->
         [class |-> self.class,
          starts |-> [k \in 1..Len(index) |-> self.starts[index[k] + 1]],
          stops |-> [k \in 1..Len(index) |-> self.stops[index[k] + 1]],
          content |-> self.content]
    [] self.class = "ExternalArray" ->
         ExternalArray(self.branches, self.depth, Len(index))
    [] self.class = "ExternalReduced" -> self

getitem_range_nowrap(self, start, stop) ==
  CASE self.class = "NumpyArray" -> NumpyArray(SubSeq(self.data, start + 1, stop))
    [] self.class \in ListClasses ->
         [class |-> self.class,
          offsets |-> SubSeq(self.offsets, start + 1, stop + 1),
          content |-> self.content]
    [] self.class \in ListArrayClasses ->
         [class |-> self.class,
          starts |-> SubSeq(self.starts, start + 1, stop),
          stops |-> SubSeq(self.stops, start + 1, stop),
          content |-> self.content]
    [] self.class = "ExternalArray" ->
         ExternalArray(self.branches, self.depth, stop - start)

RECURSIVE Ranges(_, _, _)
\* the positions starts[i] .. stops[i] - 1 of the sublists i >= n, in order
Ranges(starts, stops, n) ==
  IF n > Len(starts) THEN <<>>
  ELSE [k \in 1..(stops[n] - starts[n]) |-> starts[n] + k - 1]
         \o Ranges(starts, stops, n + 1)

\* the compact i64 list layer of a ListArray64
ListArray_toListOffsetArray64(self) ==
  LET index == Ranges(self.starts, self.stops, 1)
      count(i) == self.stops[i] - self.starts[i]
  IN  ListOffsetArray64(
        [i \in 1..(Len(self.starts) + 1) |->
           SetSum([n \in 1..Len(self.starts) |-> count(n)], 1..(i - 1))],
        carry(self.content, index))

\* ------------------------------------------------------------------ ListOffsetArrayOf<T>

\* a slip: the check of the offsets' length is left out
ListOffsetArrayOfUnchecked(class, offsets, content) ==
  [class |-> class, offsets |-> offsets, content |-> content]

\* the constructor: the layer, or invalid_argument and no layer
ListOffsetArrayOf(class, offsets, content) ==
  IF Len(offsets) = 0
  THEN Thrown("invalid_argument",
              "ListOffsetArray offsets length must be at least 1")
  ELSE [class |-> class, offsets |-> offsets, content |-> content]

\* start = offsets_[at], stop = offsets_[at + 1], both 0 for an empty sublist
AtStart(self, at) ==
  IF self.offsets[at + 1] = self.offsets[at + 2] THEN 0
  ELSE self.offsets[at + 1]

AtStop(self, at) ==
  IF self.offsets[at + 1] = self.offsets[at + 2] THEN 0
  ELSE self.offsets[at + 2]

\* a slip: the stop is not checked against the content
getitem_at_nowrap_unbounded(self, at) ==
  IF AtStart(self, at) < 0
  THEN Failure("offsets[i] < 0", kSliceNone, at)
  ELSE IF AtStart(self, at) > AtStop(self, at)
  THEN Failure("offsets[i] > offsets[i + 1]", kSliceNone, at)
  ELSE getitem_range_nowrap(self.content, AtStart(self, at),
                            Min2(AtStop(self, at), length(self.content)))

getitem_at_nowrap(self, at) ==
  IF AtStart(self, at) < 0
  THEN Failure("offsets[i] < 0", kSliceNone, at)
  ELSE IF AtStart(self, at) > AtStop(self, at)
  THEN Failure("offsets[i] > offsets[i + 1]", kSliceNone, at)
  ELSE IF AtStop(self, at) > length(self.content)
  THEN Failure("offsets[i] != offsets[i + 1] and offsets[i + 1] > len(content)",
               kSliceNone, at)
  ELSE getitem_range_nowrap(self.content, AtStart(self, at), AtStop(self, at))

\* a slip: at is not wrapped
RegularAtUnwrapped(self, at) == at

\* regular_at: a negative at counts from the end
RegularAt(self, at) ==
  IF at < 0 THEN at + (Len(self.offsets) - 1) ELSE at

\* the check of getitem_at, made before any offset is read
AtOutOfRange(self, at) ==
  ~(0 <= RegularAt(self, at) /\ RegularAt(self, at) < Len(self.offsets) - 1)

getitem_at(self, at) ==
  IF AtOutOfRange(self, at)
  THEN Failure("index out of range", kSliceNone, at)
  ELSE getitem_at_nowrap(self, RegularAt(self, at))

\* awkward_regularize_rangeslice with posstep: Python's slice bounds, start
\* and stop within [0, length], stop not before start
RegularStart(start, len) ==
  IF start = kSliceNone THEN 0
  ELSE IF start < 0 THEN Max2(start + len, 0)
  ELSE Min2(start, len)

RegularStop(start, stop, len) ==
  IF stop = kSliceNone THEN len
  ELSE Max2(RegularStart(start, len),
            IF stop < 0 THEN Max2(stop + len, 0) ELSE Min2(stop, len))

getitem_range(self, start, stop) ==
  getitem_range_nowrap(self, RegularStart(start, Len(self.offsets) - 1),
                       RegularStop(start, stop, Len(self.offsets) - 1))

\* out[i] = fromoffsets[i] - fromoffsets[0], i in [0, length]
awkward_listoffsetarray_compact_offsets64(fromoffsets, len) ==
  [i \in 1..(len + 1) |-> fromoffsets[i] - fromoffsets[1]]

\* a slip: the offsets are copied, not shifted
compact_offsets64_unshifted(self, start_at_zero) == self.offsets

\* a slip: every width returns offsets_ itself unless asked to start at zero
compact_offsets64_as_asked(self, start_at_zero) ==
  IF ~start_at_zero \/ self.offsets[1] = 0
  THEN self.offsets
  ELSE awkward_listoffsetarray_compact_offsets64(self.offsets,
                                                 Len(self.offsets) - 1)

\* the i64 specialization returns offsets_ itself unless asked to start at
\* zero; the other widths always run the kernel
compact_offsets64(self, start_at_zero) ==
  IF self.class = "ListOffsetArray64" /\ (~start_at_zero \/ self.offsets[1] = 0)
  THEN self.offsets
  ELSE awkward_listoffsetarray_compact_offsets64(self.offsets,
                                                 Len(self.offsets) - 1)

\* the failure of sublist i of the broadcast, if it has one
BroadcastFailure(fromoffsets, fromstarts, fromstops, lencontent, i) ==
  LET start == fromstarts[i + 1]
      stop == fromstops[i + 1]
      count == fromoffsets[i + 2] - fromoffsets[i + 1]
  IN  CASE start # stop /\ stop > lencontent ->
             Failure("stops[i] > len(content)", i, kSliceNone)
        [] ~(start # stop /\ stop > lencontent) /\ count < 0 ->
             Failure("broadcast's offsets must be monotonically increasing",
                     i, kSliceNone)
        [] ~(start # stop /\ stop > lencontent) /\ count >= 0
             /\ stop - start # count ->
             Failure("cannot broadcast nested list", i, kSliceNone)
        [] OTHER -> None

\* tocarry: the positions fromstarts[i] .. fromstops[i] - 1 of every sublist
\* in turn, or the failure of the first sublist that does not fit
awkward_listarray_broadcast_tooffsets64(fromoffsets, fromstarts, fromstops, lencontent) ==
  LET n == Len(fromoffsets) - 1
      failing == {i \in 0..(n - 1) :
                    BroadcastFailure(fromoffsets, fromstarts, fromstops,
                                     lencontent, i) # None}
  IN  IF failing # {}
      THEN [err |-> BroadcastFailure(fromoffsets, fromstarts, fromstops,
                                     lencontent,
                                     CHOOSE i \in failing :
                                       \A m \in failing : i <= m),
            tocarry |-> <<>>]
      ELSE [err |-> None,
            tocarry |-> Ranges(SubSeq(fromstarts, 1, n),
                               SubSeq(fromstops, 1, n), 1)]

\* a slip: the content is handed on as it is, not carried
BroadcastUncarried(self, offsets, kernel) ==
  IF kernel.err # None THEN kernel.err
  ELSE ListOffsetArray64(offsets, self.content)

\* handle_error, nextcontent = content_.carry(nextcarry) and the i64 layer
Broadcast(self, offsets, kernel) ==
  IF kernel.err # None THEN kernel.err
  ELSE ListOffsetArray64(offsets, carry(self.content, kernel.tocarry))

broadcast_tooffsets64(self, offsets) ==
  IF Len(offsets) = 0 \/ offsets[1] # 0
  THEN Thrown("invalid_argument",
              "broadcast_tooffsets64 can only be used with offsets that start at 0")
  ELSE IF Len(offsets) - 1 > Len(self.offsets) - 1
  THEN Thrown("invalid_argument", "cannot broadcast ListOffsetArray of length")
  ELSE Broadcast(self, offsets,
                 awkward_listarray_broadcast_tooffsets64(
                   offsets, make_starts(self.offsets),
                   make_stops(self.offsets), length(self.content)))

toListOffsetArray64(self, start_at_zero) ==
  IF self.class = "ListOffsetArray64" /\ (~start_at_zero \/ self.offsets[1] = 0)
  THEN self
  ELSE broadcast_tooffsets64(self, compact_offsets64(self, start_at_zero))

\* Content::axis_wrap_if_negative, for an axis that is not negative
axis_wrap_if_negative(axis) == axis

\* the index tuples of one sublist: n positions of [start, stop), increasing,
\* or non-decreasing with replacement
Tuples(start, stop, n, replacement) ==
  {t \in [1..n -> start..(stop - 1)] :
     \A j \in 1..(n - 1) :
       IF replacement THEN t[j] <= t[j + 1] ELSE t[j] < t[j + 1]}

LexLess(a, b) ==
  \E j \in 1..Len(a) : a[j] < b[j] /\ \A m \in 1..(j - 1) : a[m] = b[m]

RECURSIVE InLexOrder(_)
InLexOrder(S) ==
  IF S = {} THEN <<>>
  ELSE LET first == CHOOSE a \in S : \A b \in S \ {a} : LexLess(a, b)
       IN  <<first>> \o InLexOrder(S \ {first})

RECURSIVE AllTuples(_, _, _, _, _)
\* the tuples of the sublists i, i + 1, ... in turn
AllTuples(starts, stops, n, replacement, i) ==
  IF i > Len(starts) THEN <<>>
  ELSE InLexOrder(Tuples(starts[i], stops[i], n, replacement))
         \o AllTuples(starts, stops, n, replacement, i + 1)

\* offsets: the running count of tuples per sublist
awkward_listarray_combinations_length_64(n, replacement, starts, stops, len) ==
  [i \in 1..(len + 1) |->
     SetSum([k \in 1..len |->
               Cardinality(Tuples(starts[k], stops[k], n, replacement))],
            1..(i - 1))]

\* tocarry[j]: the j-th position of every tuple
awkward_listarray_combinations_64(n, replacement, starts, stops, len) ==
  [j \in 1..n |->
     [k \in 1..Len(AllTuples(starts, stops, n, replacement, 1)) |->
        AllTuples(starts, stops, n, replacement, 1)[k][j]]]

\* what combinations does once n is known to be at least 1
CombinationsOf(self, n, replacement, axis, depth) ==
  IF axis_wrap_if_negative(axis) = depth
  THEN ExternalCall("combinations_axis0", self, depth)
  ELSE IF axis_wrap_if_negative(axis) = depth + 1
  THEN ListOffsetArray64(
         awkward_listarray_combinations_length_64(
           n, replacement, make_starts(self.offsets),
           make_stops(self.offsets), length(self)),
         RecordArray(
           [j \in 1..n |->
              carry(self.content,
                    awkward_listarray_combinations_64(
                      n, replacement, make_starts(self.offsets),
                      make_stops(self.offsets), length(self))[j])]))
  ELSE IF IsError(toListOffsetArray64(self, TRUE))
  THEN toListOffsetArray64(self, TRUE)
  ELSE ListOffsetArray64(
         toListOffsetArray64(self, TRUE).offsets,
         ExternalCall("combinations",
                      toListOffsetArray64(self, TRUE).content, depth + 1))

\* a slip: n is checked after the axis is looked at
combinations_checked_late(self, n, replacement, axis, depth) ==
  IF axis = depth
  THEN ExternalCall("combinations_axis0", self, depth)
  ELSE IF n < 1
  THEN Thrown("invalid_argument", "in combinations, 'n' must be at least 1")
  ELSE CombinationsOf(self, n, replacement, axis, depth)

combinations(self, n, replacement, axis, depth) ==
  IF n < 1
  THEN Thrown("invalid_argument", "in combinations, 'n' must be at least 1")
  ELSE CombinationsOf(self, n, replacement, axis, depth)

offsets_and_flattened(self, axis, depth) ==
  IF axis_wrap_if_negative(axis) = depth
  THEN Thrown("invalid_argument", "axis=0 not allowed for flatten")
  ELSE IF axis_wrap_if_negative(axis) = depth + 1
  THEN IF IsError(toListOffsetArray64(self, TRUE))
       THEN toListOffsetArray64(self, TRUE)
       ELSE Pair(toListOffsetArray64(self, TRUE).offsets,
                 toListOffsetArray64(self, TRUE).content)
  ELSE ExternalCall("offsets_and_flattened", self.content, depth + 1)

\* ------------------------------------------------------------------ ListOffsetArray64

\* a slip: the test without its !branchdepth.first
TakesNonlocalWhateverBranches(self, negaxis) == negaxis = branch_depth(self)[2]

\* the test that selects the non-local path
TakesNonlocal(self, negaxis) ==
  LET branchdepth == branch_depth(self)
  IN  ~branchdepth[1] /\ negaxis = branchdepth[2]

\* a slip: the check with > for !=
ParentsMismatchTooFew(offsets, parents) == Len(offsets) - 1 > Len(parents)

\* the precondition check of the non-local path
ParentsMismatch(offsets, parents) == Len(offsets) - 1 # Len(parents)

MismatchError ==
  Thrown("runtime_error", "offsets_.length() - 1 != parents.length()")

\* what the two paths hand to the content
\* a slip: negaxis is handed on as it is
NonlocalNegaxisKept(negaxis) == negaxis

NonlocalNegaxis(negaxis) == negaxis - 1
LocalNegaxis(negaxis) == negaxis
NonlocalOutlength(maxnextparents) == maxnextparents + 1
\* a slip: the number of offsets for the number of sublists
LocalOutlengthOffByOne(offsets) == Len(offsets)
LocalOutlength(offsets) == Len(offsets) - 1
LocalStarts(offsets) == make_starts(offsets)
\* a slip: distincts for one group only
DistinctsLengthOneGroup(maxcount, outlength) == maxcount
DistinctsLength(maxcount, outlength) == maxcount * outlength

\* the leaf of the three methods: the kernel on a NumpyArray
LeafCall(o, self, how, starts, parents, outlength) ==
  CASE o = "reduce_next" ->
         NumpyArray(awkward_reduce(how, self.data, starts, parents, outlength))
    [] o = "sort_next" -> NumpyArray(awkward_sort(self.data, parents, how))
    [] o = "argsort_next" -> NumpyArray(awkward_argsort(self.data, parents, how))

PrepareOut(nextlen, maxcount, prep) ==
  [nextlen |-> nextlen,
   maxcount |-> maxcount,
   nextcarry |-> prep.nextcarry,
   nextparents |-> prep.nextparents,
   maxnextparents |-> prep.maxnextparents,
   distincts |-> prep.distincts,
   offsetscopy |-> prep.offsetscopy,
   nextstarts |-> awkward_listoffsetarray_reduce_nonlocal_nextstarts_64(
                    prep.maxnextparents + 1, prep.nextparents, nextlen)]

PrepareIn(offsets, parents, outlength, global, copy) ==
  PrepareOut(global.globalstop - global.globalstart, copy.maxcount,
             awkward_listoffsetarray_reduce_nonlocal_preparenext_64(
               global.globalstop - global.globalstart,
               DistinctsLength(copy.maxcount, outlength),
               copy.offsetscopy, offsets, Len(offsets) - 1, parents,
               copy.maxcount))

\* the preparation of the non-local path, up to nextstarts
NonlocalPrepare(offsets, parents, outlength) ==
  PrepareIn(offsets, parents, outlength,
            awkward_listoffsetarray_reduce_global_startstop_64(
              offsets, Len(offsets) - 1),
            awkward_listoffsetarray_reduce_nonlocal_maxcount_offsetscopy_64(
              offsets, Len(offsets) - 1))

\* the outlength the non-local path hands to the content
NonlocalPassedOutlength(o, nextcontent, maxnextparents) ==
  IF o = "sort_next" THEN length(nextcontent)
  ELSE NonlocalOutlength(maxnextparents)

\* the keepdims the local path hands to the content
LocalPassedKeepdims(o, keepdims) == IF o = "reduce_next" THEN keepdims ELSE FALSE

\* a slip: the content cut at globalstop only
TrimmedFromZero(self, global) ==
  getitem_range_nowrap(self.content, 0, global.globalstop)

\* trimmed = content_.getitem_range_nowrap(globalstart, globalstop)
Trimmed(self, global) ==
  getitem_range_nowrap(self.content, global.globalstart, global.globalstop)

\* a slip: the content without the carry
NextContentUncarried(self, nextcarry) == self.content

\* nextcontent = content_.carry(nextcarry)
NextContent(self, nextcarry) == carry(self.content, nextcarry)

\* the content of the local path
LocalTrimmed(self) ==
  Trimmed(self, awkward_listoffsetarray_reduce_global_startstop_64(
                  self.offsets, Len(self.offsets) - 1))

\* a slip: outstarts and outstops in each other's place
ListArrayOfSwapped(ss, outcontent) ==
  ListArray64(ss.outstops, ss.outstarts, outcontent)

\* out = ListArray64(outstarts, outstops, outcontent)
ListArrayOf(ss, outcontent) == ListArray64(ss.outstarts, ss.outstops, outcontent)

KeepdimsOne(out, keepdims) == IF keepdims THEN RegularArray(out, 1) ELSE out

\* the list the non-local path of reduce_next returns
NonlocalWrap(distincts, maxcount, parents, outlength, outcontent, keepdims) ==
  KeepdimsOne(
    ListArrayOf(
      awkward_listoffsetarray_reduce_nonlocal_outstartsstops_64(
        distincts, DistinctsLength(maxcount, outlength),
        awkward_listoffsetarray_reduce_nonlocal_findgaps_64(
          outlength, parents, Len(parents)),
        outlength),
      outcontent),
    keepdims)

\* a slip: parents.length() for outlength
LocalWrapByParentsLength(parents, outlength, outcontent) ==
  ListOffsetArray64(
    awkward_listoffsetarray_reduce_local_outoffsets_64(
      parents, Len(parents), Len(parents)),
    outcontent)

\* the list the local path of reduce_next returns
LocalWrap(parents, outlength, outcontent) ==
  ListOffsetArray64(
    awkward_listoffsetarray_reduce_local_outoffsets_64(
      parents, Len(parents), outlength),
    outcontent)

KeepdimsAll(out, keepdims) ==
  IF keepdims THEN RegularArray(out, length(out)) ELSE out

\* the list both paths of sort_next and argsort_next return
SortWrap(offsets, outcontent, keepdims) ==
  KeepdimsAll(ListOffsetArray64(offsets, outcontent), keepdims)

\* what the non-local path returns once the content has answered
NonlocalReturn(o, self, parents, outlength, keepdims, p, outcontent) ==
  IF IsError(outcontent) THEN outcontent
  ELSE IF o = "reduce_next"
       THEN NonlocalWrap(p.distincts, p.maxcount, parents, outlength,
                         outcontent, keepdims)
       ELSE SortWrap(self.offsets,
                     carry(outcontent,
                           awkward_listoffsetarray_local_preparenext_64(
                             p.nextcarry, p.nextlen)),
                     keepdims)

\* what the local path returns once the content has answered
LocalReturn(o, self, parents, outlength, keepdims, outcontent) ==
  IF IsError(outcontent) THEN outcontent
  ELSE IF o = "reduce_next" THEN LocalWrap(parents, outlength, outcontent)
       ELSE SortWrap(self.offsets, outcontent, keepdims)

RECURSIVE call_next(_, _, _, _, _, _, _, _)
RECURSIVE OnConverted(_, _, _, _, _, _, _, _)
RECURSIVE NonlocalCall(_, _, _, _, _)
RECURSIVE LocalCall(_, _, _, _, _, _)

\* <o> is reduce_next, sort_next or argsort_next; how is the reducer, or
\* ascending for the two sorts
call_next(o, self, how, negaxis, starts, parents, outlength, keepdims) ==
  CASE self.class = "NumpyArray" ->
         LeafCall(o, self, how, starts, parents, outlength)
    [] self.class = "ExternalArray" ->
         ExternalReduced(negaxis, starts, parents, outlength, keepdims)
    [] self.class \in ListArrayClasses ->
         call_next(o, ListArray_toListOffsetArray64(self), how, negaxis,
                   starts, parents, outlength, keepdims)
    [] self.class \in ListClasses \ {"ListOffsetArray64"} ->
         OnConverted(o, toListOffsetArray64(self, TRUE), how, negaxis, starts,
                     parents, outlength, keepdims)
    [] self.class = "ListOffsetArray64" ->
         IF TakesNonlocal(self, negaxis)
         THEN IF ParentsMismatch(self.offsets, parents) THEN MismatchError
              ELSE NonlocalCall(o, self, how, negaxis,
                                [parents |-> parents, outlength |-> outlength,
                                 keepdims |-> keepdims])
         ELSE LocalCall(o, self, how, negaxis,
                        [parents |-> parents, outlength |-> outlength,
                         keepdims |-> keepdims],
                        LocalTrimmed(self))

\* toListOffsetArray64(true).get()-><o>(...) of the other widths; the
\* conversion's error goes to the caller
OnConverted(o, converted, how, negaxis, starts, parents, outlength, keepdims) ==
  IF IsError(converted) THEN converted
  ELSE call_next(o, converted, how, negaxis, starts, parents, outlength,
                 keepdims)

RECURSIVE NonlocalRecursion(_, _, _, _, _)
\* nextcontent.<o>(negaxis - 1, nextstarts, nextparents, ..., false)
NonlocalRecursion(o, how, negaxis, p, nextcontent) ==
  call_next(o, nextcontent, how, NonlocalNegaxis(negaxis), p.nextstarts,
            p.nextparents,
            NonlocalPassedOutlength(o, nextcontent, p.maxnextparents), FALSE)

RECURSIVE NonlocalWith(_, _, _, _, _, _)
NonlocalWith(o, self, how, negaxis, a, p) ==
  NonlocalReturn(o, self, a.parents, a.outlength, a.keepdims, p,
                 NonlocalRecursion(o, how, negaxis, p,
                                   NextContent(self, p.nextcarry)))

\* the non-local path
NonlocalCall(o, self, how, negaxis, a) ==
  NonlocalWith(o, self, how, negaxis, a,
               NonlocalPrepare(self.offsets, a.parents, a.outlength))

RECURSIVE LocalRecursion(_, _, _, _, _, _)
\* trimmed.<o>(negaxis, make_starts(offsets_), nextparents,
\* offsets_.length() - 1, ..., keepdims)
LocalRecursion(o, self, how, negaxis, keepdims, trimmed) ==
  call_next(o, trimmed, how, LocalNegaxis(negaxis), LocalStarts(self.offsets),
            awkward_listoffsetarray_reduce_local_nextparents_64(
              self.offsets, Len(self.offsets) - 1),
            LocalOutlength(self.offsets), LocalPassedKeepdims(o, keepdims))

\* the local path
LocalCall(o, self, how, negaxis, a, trimmed) ==
  LocalReturn(o, self, a.parents, a.outlength, a.keepdims,
              LocalRecursion(o, self, how, negaxis, a.keepdims, trimmed))

reduce_next(self, reducer, negaxis, starts, parents, outlength, keepdims) ==
  call_next("reduce_next", self, reducer, negaxis, starts, parents, outlength,
            keepdims)

sort_next(self, negaxis, starts, parents, outlength, ascending, keepdims) ==
  call_next("sort_next", self, ascending, negaxis, starts, parents, outlength,
            keepdims)

argsort_next(self, negaxis, starts, parents, outlength, ascending, keepdims) ==
  call_next("argsort_next", self, ascending, negaxis, starts, parents,
            outlength, keepdims)

\* ------------------------------------------------------------------ state

VARIABLES
  op,       \* the method called: reduce_next, sort_next or argsort_next
  receiver, \* the array the caller called it on
  self,     \* the array whose method body runs: the receiver, or what the
            \* receiver was converted to
  args,     \* its arguments: how (the reducer, or ascending for the sorts),
            \* negaxis, starts, parents, outlength, keepdims
  pc,       \* where the call is
  frame,    \* the locals of the call, by name; its domain is what exists
  kernels,  \* the kernels the method that runs has invoked so far, in order
  passed,   \* what the list layer handed to content.<op>: the content,
            \* negaxis, starts, parents, outlength, keepdims
  reduced,  \* the arrays whose reduction the caller has reduced again; in
            \* the descent, the layers whose call waits for their content's
  result    \* the returned array, or the thrown error

vars == <<op, receiver, self, args, pc, frame, kernels, passed, reduced, result>>

ListOps == {"reduce_next", "sort_next", "argsort_next"}

Args(how, negaxis, starts, parents, outlength, keepdims) ==
  [how |-> how, negaxis |-> negaxis, starts |-> starts, parents |-> parents,
   outlength |-> outlength, keepdims |-> keepdims]

Zeros(n) == [k \in 1..n |-> 0]

\* the state in which a call has been made and nothing has run yet
Called(o, array, a) ==
  /\ op = o
  /\ receiver = array
  /\ self = array
  /\ args = a
  /\ pc = "call"
  /\ frame = <<>>
  /\ kernels = <<>>
  /\ passed = None
  /\ reduced = <<>>
  /\ result = None

\* ------------------------------------------------------------------ the i64 list layer, step by step

\* a slip: the strategies run on whatever width the receiver has
OnAnyList == op \in ListOps /\ self.class \in ListClasses

OnList == op \in ListOps /\ self.class = "ListOffsetArray64"

\* the method of the 32-bit widths: toListOffsetArray64(true), and the same
\* call on what it returns
OtherWidth ==
  /\ pc = "call" /\ op \in ListOps
  /\ self.class \in ListClasses \ {"ListOffsetArray64"}
  /\ IF IsError(toListOffsetArray64(self, TRUE))
     THEN /\ pc' = "thrown"
          /\ result' = toListOffsetArray64(self, TRUE)
          /\ self' = self
     ELSE /\ pc' = "call"
          /\ self' = toListOffsetArray64(self, TRUE)
          /\ result' = result
  /\ UNCHANGED <<op, receiver, args, frame, kernels, passed, reduced>>

\* offsets_.length() - 1 != parents.length() on the non-local path: throw
EnterThrow ==
  /\ pc = "call" /\ OnList
  /\ TakesNonlocal(self, args.negaxis)
  /\ ParentsMismatch(self.offsets, args.parents)
  /\ pc' = "thrown"
  /\ result' = MismatchError
  /\ UNCHANGED <<op, receiver, self, args, frame, kernels, passed, reduced>>

EnterNonlocal ==
  /\ pc = "call" /\ OnList
  /\ TakesNonlocal(self, args.negaxis)
  /\ ~ParentsMismatch(self.offsets, args.parents)
  /\ pc' = "nonlocal_startstop"
  /\ UNCHANGED <<op, receiver, self, args, frame, kernels, passed, reduced, result>>

EnterLocal ==
  /\ pc = "call" /\ OnList
  /\ ~TakesNonlocal(self, args.negaxis)
  /\ pc' = "local_startstop"
  /\ UNCHANGED <<op, receiver, self, args, frame, kernels, passed, reduced, result>>

NonlocalStartstop ==
  /\ pc = "nonlocal_startstop"
  /\ LET global == awkward_listoffsetarray_reduce_global_startstop_64(
                     self.offsets, Len(self.offsets) - 1)
     IN  frame' = frame @@ [globalstart |-> global.globalstart,
                            globalstop |-> global.globalstop,
                            nextlen |-> global.globalstop - global.globalstart]
  /\ kernels' = Append(kernels, "global_startstop")
  /\ pc' = "nonlocal_maxcount"
  /\ UNCHANGED <<op, receiver, self, args, passed, reduced, result>>

\* a slip: Index64 offsetscopy = offsets_, a view of the buffer of offsets_
OffsetscopyShared == "offsets"

\* Index64 offsetscopy(offsets_.length()): a buffer of the call's own
OffsetscopyBuffer == "offsetscopy"

\* what a kernel writes through offsetscopy.ptr(), and the other locals it
\* sets: the write lands in the buffer offsetscopy points to, which is the
\* layer's were it shared with offsets_
WriteOffsetscopy(buffer, value, locals) ==
  /\ frame' = [n \in DOMAIN frame \cup {"offsetscopy"} |->
                 IF n = "offsetscopy" THEN value ELSE frame[n]] @@ locals
  /\ self' = IF buffer = "offsets" THEN [self EXCEPT !.offsets = value]
             ELSE self

\* Index64 offsetscopy(...); maxcount and the copy of offsets_ into it
NonlocalMaxcount ==
  /\ pc = "nonlocal_maxcount"
  /\ LET copy == awkward_listoffsetarray_reduce_nonlocal_maxcount_offsetscopy_64(
                   self.offsets, Len(self.offsets) - 1)
     IN  WriteOffsetscopy(OffsetscopyBuffer, copy.offsetscopy,
                          [maxcount |-> copy.maxcount])
  /\ kernels' = Append(kernels, "maxcount_offsetscopy")
  /\ pc' = "nonlocal_preparenext"
  /\ UNCHANGED <<op, receiver, args, passed, reduced, result>>

NonlocalPreparenext ==
  /\ pc = "nonlocal_preparenext"
  /\ LET prep == awkward_listoffsetarray_reduce_nonlocal_preparenext_64(
                   frame.nextlen,
                   DistinctsLength(frame.maxcount, args.outlength),
                   frame.offsetscopy, self.offsets, Len(self.offsets) - 1,
                   args.parents, frame.maxcount)
     IN  WriteOffsetscopy(OffsetscopyBuffer, prep.offsetscopy,
                          [nextcarry |-> prep.nextcarry,
                           nextparents |-> prep.nextparents,
                           maxnextparents |-> prep.maxnextparents,
                           distincts |-> prep.distincts])
  /\ kernels' = Append(kernels, "preparenext")
  /\ pc' = "nonlocal_nextstarts"
  /\ UNCHANGED <<op, receiver, args, passed, reduced, result>>

NonlocalNextstarts ==
  /\ pc = "nonlocal_nextstarts"
  /\ frame' = frame @@
       [nextstarts |-> awkward_listoffsetarray_reduce_nonlocal_nextstarts_64(
                         frame.maxnextparents + 1, frame.nextparents,
                         frame.nextlen)]
  /\ kernels' = Append(kernels, "nextstarts")
  /\ pc' = "nonlocal_recurse"
  /\ UNCHANGED <<op, receiver, self, args, passed, reduced, result>>

\* what the call hands to the content, on either path
Passed(content, negaxis, starts, parents, outlength, keepdims) ==
  [class |-> "Passed", content |-> content, negaxis |-> negaxis,
   starts |-> starts, parents |-> parents, outlength |-> outlength,
   keepdims |-> keepdims]

CallContent(p) ==
  call_next(op, p.content, args.how, p.negaxis, p.starts, p.parents,
            p.outlength, p.keepdims)

\* the content's answer is kept in the frame, or its error goes to the caller;
\* the two sorts return from the local path at once
Answered(p, held, outcontent, nextpc) ==
  /\ passed' = p
  /\ IF IsError(outcontent)
     THEN /\ pc' = "thrown"
          /\ result' = outcontent
          /\ frame' = frame @@ held
     ELSE /\ pc' = nextpc
          /\ result' = IF nextpc = "done"
                       THEN SortWrap(self.offsets, outcontent, args.keepdims)
                       ELSE result
          /\ frame' = frame @@ held @@ [outcontent |-> outcontent]

Recurse(p, held, nextpc) == Answered(p, held, CallContent(p), nextpc)

NonlocalRecurseOn(nextcontent) ==
  Recurse(Passed(nextcontent, NonlocalNegaxis(args.negaxis),
                 frame.nextstarts, frame.nextparents,
                 NonlocalPassedOutlength(op, nextcontent, frame.maxnextparents),
                 FALSE),
          [nextcontent |-> nextcontent],
          IF op = "reduce_next" THEN "nonlocal_findgaps"
          ELSE "nonlocal_outcarry")

\* nextcontent = content_.carry(nextcarry); outcontent = nextcontent.<op>(...)
NonlocalRecurse ==
  /\ pc = "nonlocal_recurse"
  /\ NonlocalRecurseOn(NextContent(self, frame.nextcarry))
  /\ UNCHANGED <<op, receiver, self, args, kernels, reduced>>

NonlocalFindgaps ==
  /\ pc = "nonlocal_findgaps"
  /\ frame' = frame @@
       [gaps |-> awkward_listoffsetarray_reduce_nonlocal_findgaps_64(
                   args.outlength, args.parents, Len(args.parents))]
  /\ kernels' = Append(kernels, "findgaps")
  /\ pc' = "nonlocal_outstartsstops"
  /\ UNCHANGED <<op, receiver, self, args, passed, reduced, result>>

\* outstarts and outstops, and the ListArray64 made of them is returned
NonlocalOutstartsstops ==
  /\ pc = "nonlocal_outstartsstops"
  /\ LET ss == awkward_listoffsetarray_reduce_nonlocal_outstartsstops_64(
                 frame.distincts,
                 DistinctsLength(frame.maxcount, args.outlength),
                 frame.gaps, args.outlength)
     IN  /\ frame' = frame @@ [outstarts |-> ss.outstarts,
                               outstops |-> ss.outstops]
         /\ result' = KeepdimsOne(ListArrayOf(ss, frame.outcontent),
                                  args.keepdims)
  /\ kernels' = Append(kernels, "outstartsstops")
  /\ pc' = "done"
  /\ UNCHANGED <<op, receiver, self, args, passed, reduced>>

\* the two sorts: outcarry, and the sorted content is wrapped in offsets_
NonlocalOutcarry ==
  /\ pc = "nonlocal_outcarry"
  /\ LET outcarry == awkward_listoffsetarray_local_preparenext_64(
                       frame.nextcarry, frame.nextlen)
     IN  /\ frame' = frame @@ [outcarry |-> outcarry]
         /\ result' = SortWrap(self.offsets, carry(frame.outcontent, outcarry),
                               args.keepdims)
  /\ kernels' = Append(kernels, "local_preparenext")
  /\ pc' = "done"
  /\ UNCHANGED <<op, receiver, self, args, passed, reduced>>

LocalStartstop ==
  /\ pc = "local_startstop"
  /\ LET global == awkward_listoffsetarray_reduce_global_startstop_64(
                     self.offsets, Len(self.offsets) - 1)
     IN  frame' = frame @@ [globalstart |-> global.globalstart,
                            globalstop |-> global.globalstop]
  /\ kernels' = Append(kernels, "global_startstop")
  /\ pc' = "local_nextparents"
  /\ UNCHANGED <<op, receiver, self, args, passed, reduced, result>>

LocalNextparents ==
  /\ pc = "local_nextparents"
  /\ frame' = frame @@
       [nextparents |-> awkward_listoffsetarray_reduce_local_nextparents_64(
                          self.offsets, Len(self.offsets) - 1)]
  /\ kernels' = Append(kernels, "local_nextparents")
  /\ pc' = "local_recurse"
  /\ UNCHANGED <<op, receiver, self, args, passed, reduced, result>>

LocalRecurseOn(trimmed) ==
  Recurse(Passed(trimmed, LocalNegaxis(args.negaxis),
                 LocalStarts(self.offsets), frame.nextparents,
                 LocalOutlength(self.offsets),
                 LocalPassedKeepdims(op, args.keepdims)),
          [trimmed |-> trimmed],
          IF op = "reduce_next" THEN "local_outoffsets" ELSE "done")

\* trimmed = content_.getitem_range_nowrap(globalstart, globalstop);
\* outcontent = trimmed.<op>(...); the two sorts return here
LocalRecurse ==
  /\ pc = "local_recurse"
  /\ LocalRecurseOn(Trimmed(self, frame))
  /\ UNCHANGED <<op, receiver, self, args, kernels, reduced>>

\* outoffsets, and the ListOffsetArray64 made of it is returned
LocalOutoffsets ==
  /\ pc = "local_outoffsets"
  /\ LET out == LocalWrap(args.parents, args.outlength, frame.outcontent)
     IN  /\ frame' = frame @@ [outoffsets |-> out.offsets]
         /\ result' = out
  /\ kernels' = Append(kernels, "local_outoffsets")
  /\ pc' = "done"
  /\ UNCHANGED <<op, receiver, self, args, passed, reduced>>

\* the caller reduces again, along the same axis, the list of lists that a
\* reduction returned
ReduceAgain ==
  /\ pc = "done" /\ op = "reduce_next" /\ reduced = <<>>
  /\ result.class = "ListOffsetArray64"
  /\ result.content.class = "ListOffsetArray64"
  /\ receiver' = result.content
  /\ self' = result.content
  /\ args' = [args EXCEPT !.parents = Zeros(length(result.content)),
                          !.starts = <<0>>,
                          !.outlength = 1]
  /\ pc' = "call"
  /\ frame' = <<>>
  /\ kernels' = <<>>
  /\ passed' = None
  /\ reduced' = Append(reduced, self)
  /\ result' = None
  /\ UNCHANGED op

\* the leaf: reduce_next of a NumpyArray is the reducer's kernel
LeafReduce ==
  /\ pc = "call" /\ op = "reduce_next" /\ self.class = "NumpyArray"
  /\ result' = LeafCall(op, self, args.how, args.starts, args.parents,
                        args.outlength)
  /\ kernels' = Append(kernels, "reduce")
  /\ pc' = "done"
  /\ UNCHANGED <<op, receiver, self, args, frame, passed, reduced>>


\* ------------------------------------------------------------------ inputs

\* a content buffer whose every element is told apart in a sum: 1, 2, 4, ...
Tape(n) == [k \in 1..n |-> Pow2(k - 1)]

\* the valid offsets of at most MaxLists sublists of a content of length n
OffsetsOver(n) ==
  {o \in SeqsUpTo(0..n, MaxLists + 1) : Len(o) >= 1 /\ IsNonDecreasing(o)}

\* the reducers; min and max with an identity no element reaches
Reducers ==
  {Reducer(name, 0) : name \in ReducerNames \ {"min", "max"}}
    \cup {Reducer("min", Pow2(MaxLen + 1)), Reducer("max", -1)}

Hows(o) == IF o = "reduce_next" THEN Reducers ELSE BOOLEAN

\* a list of numbers, any parents (of the right length or not), either path
InitFlat ==
  \E o \in ListOps, offsets \in OffsetsOver(MaxLen), outlength \in 0..MaxOut,
     negaxis \in 1..2, keepdims \in BOOLEAN :
    \E how \in Hows(o), parents \in SeqsUpTo(0..(outlength - 1), MaxLists) :
      Called(o, ListOffsetArray64(offsets, NumpyArray(Tape(MaxLen))),
             Args(how, negaxis, Zeros(outlength), parents, outlength, keepdims))

Scenario1 == ListOffsetArray64(<<0, 3, 3, 5, 6>>, NumpyArray(<<1, 2, 3, 4, 5, 6>>))

Scenario2 == ListOffsetArray64(<<0, 4, 4, 6>>, NumpyArray(<<1, 5, 2, NaN, 30, 30>>))

Scenario3 ==
  ListOffsetArray64(<<0, 2, 3>>,
    ListOffsetArray64(<<0, 2, 3, 3, 5>>, NumpyArray(<<1, 2, 3, 4, 5>>)))

Scenario4 ==
  ListOffsetArray64(<<0, 0, 2>>,
    ListOffsetArray64(<<0, 1, 2>>, NumpyArray(<<7, 8>>)))

Scenario6 == ListOffsetArray64(<<0, 2, 2, 4>>, NumpyArray(<<5, 3, 9, 2>>))

\* the end-to-end scenarios, each sublist a group of its own
InitScenario ==
  \/ Called("reduce_next", Scenario1,
            Args(Reducer("sum", 0), 1, Zeros(4), <<0, 1, 2, 3>>, 4, FALSE))
  \/ Called("reduce_next", Scenario2,
            Args(Reducer("argmax", 0), 1, Zeros(3), <<0, 1, 2>>, 3, FALSE))
  \/ Called("reduce_next", Scenario6,
            Args(Reducer("min", 2147483647), 1, Zeros(3), <<0, 1, 2>>, 3, FALSE))

\* lists of lists of numbers, the outer list one group
NestedLayers ==
  {Scenario3, Scenario4,
   ListOffsetArray64(<<1, 2, 3>>,
     ListOffsetArray64(<<0, 1, 1, 3>>, NumpyArray(Tape(MaxLen))))}

InitNested ==
  \E o \in ListOps, layer \in NestedLayers, negaxis \in 1..3 :
    \E how \in (IF o = "reduce_next"
                THEN {Reducer("sum", 0), Reducer("argmax", 0)} ELSE {TRUE}) :
      Called(o, layer,
             Args(how, negaxis, <<0>>, Zeros(length(layer)), 1, FALSE))

\* lists of a collaborator's content, which may branch
InitExternal ==
  \E o \in ListOps, branches \in BOOLEAN, depth \in 1..2, negaxis \in 1..3,
     offsets \in {<<0, 1, 2>>, <<1, 2>>} :
    Called(o,
           ListOffsetArray64(offsets, ExternalArray(branches, depth, 2)),
           Args(IF o = "reduce_next" THEN Reducer("sum", 0) ELSE TRUE,
                negaxis, <<0>>, Zeros(Len(offsets) - 1), 1, FALSE))

\* lists with 32-bit offsets, of numbers and of lists with 32-bit offsets
NarrowLayers ==
  {[class |-> c, offsets |-> offsets, content |-> NumpyArray(Tape(MaxLen))] :
     c \in ListClasses \ {"ListOffsetArray64"}, offsets \in OffsetsOver(MaxLen)}
    \cup {ListOffsetArray32(<<1, 2, 3>>,
             ListOffsetArrayU32(<<1, 2, 2, 4>>, NumpyArray(Tape(MaxLen + 1)))),
           ListOffsetArray64(<<1, 3>>,
             ListOffsetArray32(<<1, 1, 2, 4>>, NumpyArray(Tape(MaxLen + 1))))}

InitNarrow ==
  \E o \in ListOps, layer \in NarrowLayers, negaxis \in 1..3 :
    \E parents \in {Zeros(length(layer)), <<0>>} :
    /\ negaxis <= branch_depth(layer)[2]
    /\ Called(o, layer,
              Args(IF o = "reduce_next" THEN Reducer("sum", 0) ELSE FALSE,
                   negaxis, <<0>>, parents, 1, FALSE))

Init == InitFlat \/ InitScenario \/ InitNested \/ InitExternal \/ InitNarrow

Next ==
  \/ OtherWidth
  \/ EnterThrow
  \/ EnterNonlocal
  \/ EnterLocal
  \/ NonlocalStartstop
  \/ NonlocalMaxcount
  \/ NonlocalPreparenext
  \/ NonlocalNextstarts
  \/ NonlocalRecurse
  \/ NonlocalFindgaps
  \/ NonlocalOutstartsstops
  \/ NonlocalOutcarry
  \/ LocalStartstop
  \/ LocalNextparents
  \/ LocalRecurse
  \/ LocalOutoffsets
  \/ ReduceAgain

Spec == Init /\ [][Next]_vars

\* ------------------------------------------------------------------ the descent

\* the call a list layer makes on its content is entered: the content's method
\* starts with the arguments handed to it, the layer waits
Descend(p) ==
  /\ receiver' = p.content
  /\ self' = p.content
  /\ args' = Args(args.how, p.negaxis, p.starts, p.parents, p.outlength,
                  p.keepdims)
  /\ pc' = "call"
  /\ frame' = <<>>
  /\ kernels' = <<>>
  /\ passed' = p
  /\ reduced' = Append(reduced, self)
  /\ UNCHANGED <<op, result>>

DescendNonlocalOn(nextcontent) ==
  Descend(Passed(nextcontent, NonlocalNegaxis(args.negaxis),
                 frame.nextstarts, frame.nextparents,
                 NonlocalPassedOutlength(op, nextcontent, frame.maxnextparents),
                 FALSE))

\* nextcontent = content_.carry(nextcarry); nextcontent.reduce_next(...)
DescendNonlocal ==
  /\ pc = "nonlocal_recurse"
  /\ DescendNonlocalOn(NextContent(self, frame.nextcarry))

\* trimmed = content_.getitem_range_nowrap(globalstart, globalstop);
\* trimmed.reduce_next(...)
DescendLocal ==
  /\ pc = "local_recurse"
  /\ Descend(Passed(Trimmed(self, frame), LocalNegaxis(args.negaxis),
                    LocalStarts(self.offsets), frame.nextparents,
                    LocalOutlength(self.offsets),
                    LocalPassedKeepdims(op, args.keepdims)))

\* the method of a carried list, a ListArray: its i64 list layer, and the
\* same call on it
OnListArray ==
  /\ pc = "call" /\ op \in ListOps
  /\ self.class \in ListArrayClasses
  /\ self' = ListArray_toListOffsetArray64(self)
  /\ UNCHANGED <<op, receiver, args, pc, frame, kernels, passed, reduced, result>>

\* reduce_next of lists of numbers, one to three layers, of any width
InitDescent ==
  /\ InitFlat \/ InitScenario \/ InitNested \/ InitNarrow
  /\ op = "reduce_next"
  /\ args.how.name \in {"sum", "argmax"}
  /\ ~args.keepdims

NextDescent ==
  \/ OtherWidth
  \/ OnListArray
  \/ EnterThrow
  \/ EnterNonlocal
  \/ EnterLocal
  \/ NonlocalStartstop
  \/ NonlocalMaxcount
  \/ NonlocalPreparenext
  \/ NonlocalNextstarts
  \/ DescendNonlocal
  \/ LocalStartstop
  \/ LocalNextparents
  \/ DescendLocal
  \/ LeafReduce

\* a call that can take a step takes it
SpecDescent == InitDescent /\ [][NextDescent]_vars /\ WF_vars(NextDescent)

\* ------------------------------------------------------------------ the layer's methods, call by call

\* a list layer over numbers or lists, not over a record or another
\* collaborator's content
ListOfLists(value) ==
  /\ value.class \in ListClasses
  /\ value.content.class \in {"NumpyArray"} \cup ListClasses \cup ListArrayClasses

\* a method returns its value or throws; the caller goes on with the list
\* layer it got, if it got one, and with the layer it had otherwise
Returns(method, arguments, value, log) ==
  /\ op' = method
  /\ args' = arguments
  /\ receiver' = self
  /\ self' = IF ListOfLists(value) THEN value ELSE self
  /\ pc' = IF IsError(value) THEN "thrown" ELSE "returned"
  /\ result' = value
  /\ kernels' = log
  /\ frame' = <<>>
  /\ passed' = None
  /\ reduced' = <<>>

\* the caller holds a list layer and no call is running
Held == pc = "held"

\* the caller takes the list layer a method returned as the receiver of its
\* next call
Hold ==
  /\ pc = "returned" /\ ListOfLists(result)
  /\ pc' = "held"
  /\ op' = "none"
  /\ args' = <<>>
  /\ receiver' = None
  /\ result' = None
  /\ kernels' = <<>>
  /\ UNCHANGED <<self, frame, passed, reduced>>

\* the layer's contract: offsets from 0 on, non-decreasing, within the content
Valid(layer) ==
  /\ IsNonDecreasing(layer.offsets)
  /\ layer.offsets[1] >= 0
  /\ layer.offsets[Len(layer.offsets)] <= length(layer.content)

\* new ListOffsetArrayOf<T>(identities, parameters, offsets, content)
Construct ==
  /\ pc = "new"
  /\ Returns("ListOffsetArray", args,
             ListOffsetArrayOf(args.class, args.offsets, args.content), <<>>)

CompactOffsets64 ==
  /\ Held
  /\ \E start_at_zero \in BOOLEAN :
       Returns("compact_offsets64", [start_at_zero |-> start_at_zero],
               Index64(compact_offsets64(self, start_at_zero)),
               IF compact_offsets64(self, start_at_zero) = self.offsets
                  /\ self.class = "ListOffsetArray64"
               THEN <<>> ELSE <<"compact_offsets64">>)

ToListOffsetArray64 ==
  /\ Held /\ Valid(self)
  /\ \E start_at_zero \in BOOLEAN :
       Returns("toListOffsetArray64", [start_at_zero |-> start_at_zero],
               toListOffsetArray64(self, start_at_zero),
               IF toListOffsetArray64(self, start_at_zero) = self
               THEN <<>> ELSE <<"compact_offsets64", "broadcast_tooffsets64">>)

\* the offsets a caller may broadcast to: none, the layer's own, the layer's
\* compact ones, one sublist less, one sublist more, other counts
BroadcastTargets(layer) ==
  {<<>>, <<0>>, <<1>>, layer.offsets,
   awkward_listoffsetarray_compact_offsets64(layer.offsets,
                                             Len(layer.offsets) - 1),
   awkward_listoffsetarray_compact_offsets64(layer.offsets,
                                             Len(layer.offsets) - 1) \o <<0>>,
   [i \in 1..Len(layer.offsets) |-> i - 1]}

BroadcastTooffsets64 ==
  /\ Held /\ Valid(self)
  /\ \E offsets \in BroadcastTargets(self) :
       Returns("broadcast_tooffsets64", [offsets |-> offsets],
               broadcast_tooffsets64(self, offsets),
               IF Len(offsets) = 0 \/ offsets[1] # 0
                  \/ Len(offsets) > Len(self.offsets)
               THEN <<>> ELSE <<"broadcast_tooffsets64">>)

GetitemRange ==
  /\ Held
  /\ \E start, stop \in (-1..Len(self.offsets)) \cup {kSliceNone} :
       Returns("getitem_range", [start |-> start, stop |-> stop],
               getitem_range(self, start, stop), <<"regularize_rangeslice">>)

GetitemRangeNowrap ==
  /\ Held
  /\ \E start, stop \in 0..(Len(self.offsets) - 1) :
       /\ start <= stop
       /\ Returns("getitem_range_nowrap", [start |-> start, stop |-> stop],
                  getitem_range_nowrap(self, start, stop), <<>>)

\* getitem_at up to its check: it throws, or goes on to getitem_at_nowrap
GetitemAt ==
  /\ Held
  /\ \E at \in (-Len(self.offsets))..(Len(self.offsets) - 1) :
       IF AtOutOfRange(self, at)
       THEN Returns("getitem_at", [at |-> at], getitem_at(self, at), <<>>)
       ELSE /\ op' = "getitem_at"
            /\ args' = [at |-> at]
            /\ receiver' = self
            /\ pc' = "getitem_at_nowrap"
            /\ frame' = [regular_at |-> RegularAt(self, at)]
            /\ kernels' = <<>>
            /\ result' = None
            /\ UNCHANGED <<self, passed, reduced>>

\* return getitem_at_nowrap(regular_at)
GetitemAtReturn ==
  /\ pc = "getitem_at_nowrap"
  /\ Returns(op, args, getitem_at_nowrap(self, frame.regular_at),
             <<"offsets.getitem_at_nowrap", "offsets.getitem_at_nowrap">>)

\* getitem_at_nowrap called as it is, with an at that is a sublist's
GetitemAtNowrap ==
  /\ Held
  /\ \E at \in 0..(Len(self.offsets) - 2) :
       Returns("getitem_at_nowrap", [at |-> at], getitem_at_nowrap(self, at),
               <<"offsets.getitem_at_nowrap", "offsets.getitem_at_nowrap">>)

Combinations ==
  /\ Held /\ Valid(self)
  /\ \E n \in -1..2, replacement \in BOOLEAN, axis \in -1..2, depth \in 0..1 :
       /\ n >= 1 => axis >= 0
       /\ Returns("combinations",
                  [n |-> n, replacement |-> replacement, axis |-> axis,
                   depth |-> depth],
                  combinations(self, n, replacement, axis, depth),
                  IF n >= 1 /\ axis = depth + 1
                  THEN <<"combinations_length_64", "combinations_64">>
                  ELSE IF n >= 1 /\ axis > depth + 1
                  THEN <<"compact_offsets64", "broadcast_tooffsets64">>
                  ELSE <<>>)

OffsetsAndFlattened ==
  /\ Held /\ Valid(self)
  /\ \E axis \in 0..3, depth \in 0..1 :
       Returns("offsets_and_flattened", [axis |-> axis, depth |-> depth],
               offsets_and_flattened(self, axis, depth),
               IF axis = depth + 1
               THEN <<"compact_offsets64", "broadcast_tooffsets64">>
               ELSE <<>>)

\* the sum along an axis of the layer, the whole layer one group
ReduceNext ==
  /\ Held /\ Valid(self)
  /\ \E negaxis \in 1..branch_depth(self)[2] :
       Returns("reduce_next",
               Args(Reducer("sum", 0), negaxis, <<0>>, Zeros(length(self)), 1,
                    FALSE),
               call_next("reduce_next", self, Reducer("sum", 0), negaxis,
                         <<0>>, Zeros(length(self)), 1, FALSE),
               <<>>)

\* contents of length MaxLen: numbers, and lists of numbers
LayerContents ==
  {NumpyArray(Tape(MaxLen)),
   ListOffsetArray64([i \in 1..(MaxLen + 1) |-> Max2(i - 2, 0)],
                     NumpyArray(Tape(MaxLen)))}

\* offsets of at most MaxLists sublists, valid or not, and no offsets at all
AnyOffsets == SeqsUpTo(-1..(MaxLen + 1), MaxLists + 1)

\* the constructor is called: with valid offsets of every width over either
\* content, with no offsets, and with any i64 offsets over numbers
InitLayer ==
  /\ op = "ListOffsetArray"
  /\ receiver = None
  /\ self = None
  /\ pc = "new"
  /\ frame = <<>>
  /\ kernels = <<>>
  /\ passed = None
  /\ reduced = <<>>
  /\ result = None
  /\ \/ \E class \in ListClasses, content \in LayerContents,
           offsets \in OffsetsOver(MaxLen) \cup {<<>>} :
          args = [class |-> class, offsets |-> offsets, content |-> content]
     \/ \E offsets \in AnyOffsets :
          args = [class |-> "ListOffsetArray64", offsets |-> offsets,
                  content |-> NumpyArray(Tape(MaxLen))]

NextLayer ==
  \/ Construct
  \/ Hold
  \/ CompactOffsets64
  \/ ToListOffsetArray64
  \/ BroadcastTooffsets64
  \/ GetitemRange
  \/ GetitemRangeNowrap
  \/ GetitemAt
  \/ GetitemAtReturn
  \/ GetitemAtNowrap
  \/ Combinations
  \/ OffsetsAndFlattened
  \/ ReduceNext

SpecLayer == InitLayer /\ [][NextLayer]_vars

\* ------------------------------------------------------------------ two calls at once

\* one call of reduce_next on an i64 layer: the layer, the arguments, where
\* the call is, its locals and what it returns
Call(layer, a, at, locals, answer) ==
  [self |-> layer, args |-> a, pc |-> at, frame |-> locals, result |-> answer]

\* the next kernel has run: the locals it sets, and where the call is then
Set(c, nextpc, locals) == [c EXCEPT !.pc = nextpc, !.frame = locals @@ c.frame]

\* the content has answered the call the layer made on it
ContentAnswered(c, nextpc, locals, outcontent) ==
  IF IsError(outcontent)
  THEN [c EXCEPT !.pc = "thrown", !.result = outcontent,
                 !.frame = locals @@ c.frame]
  ELSE Set(c, nextpc, [outcontent |-> outcontent] @@ locals)

Returned(c, locals, out) ==
  [c EXCEPT !.pc = "done", !.result = out, !.frame = locals @@ c.frame]

\* the non-local path of reduce_next from one kernel invocation to the next
AdvanceNonlocal(c, offsets, len, f) ==
  CASE c.pc = "nonlocal_startstop" ->
         Set(c, "nonlocal_maxcount",
             [globalstart |-> offsets[1],
              globalstop |-> offsets[len + 1],
              nextlen |-> offsets[len + 1] - offsets[1]])
    [] c.pc = "nonlocal_maxcount" ->
         Set(c, "nonlocal_preparenext",
             awkward_listoffsetarray_reduce_nonlocal_maxcount_offsetscopy_64(
               offsets, len))
    [] c.pc = "nonlocal_preparenext" ->
         Set(c, "nonlocal_nextstarts",
             awkward_listoffsetarray_reduce_nonlocal_preparenext_64(
               f.nextlen, DistinctsLength(f.maxcount, c.args.outlength),
               f.offsetscopy, offsets, len, c.args.parents, f.maxcount))
    [] c.pc = "nonlocal_nextstarts" ->
         Set(c, "nonlocal_recurse",
             [nextstarts |->
                awkward_listoffsetarray_reduce_nonlocal_nextstarts_64(
                  f.maxnextparents + 1, f.nextparents, f.nextlen)])
    [] c.pc = "nonlocal_recurse" ->
         ContentAnswered(c, "nonlocal_findgaps",
           [nextcontent |-> NextContent(c.self, f.nextcarry)],
           call_next("reduce_next", NextContent(c.self, f.nextcarry),
                     c.args.how, NonlocalNegaxis(c.args.negaxis), f.nextstarts,
                     f.nextparents, NonlocalOutlength(f.maxnextparents), FALSE))
    [] c.pc = "nonlocal_findgaps" ->
         Set(c, "nonlocal_outstartsstops",
             [gaps |-> awkward_listoffsetarray_reduce_nonlocal_findgaps_64(
                         c.args.outlength, c.args.parents, Len(c.args.parents))])
    [] c.pc = "nonlocal_outstartsstops" ->
         Returned(c,
           awkward_listoffsetarray_reduce_nonlocal_outstartsstops_64(
             f.distincts, DistinctsLength(f.maxcount, c.args.outlength),
             f.gaps, c.args.outlength),
           NonlocalWrap(f.distincts, f.maxcount, c.args.parents,
                        c.args.outlength, f.outcontent, c.args.keepdims))

\* the local path of reduce_next from one kernel invocation to the next
AdvanceLocal(c, offsets, len, f) ==
  CASE c.pc = "local_startstop" ->
         Set(c, "local_nextparents",
             [globalstart |-> offsets[1], globalstop |-> offsets[len + 1]])
    [] c.pc = "local_nextparents" ->
         Set(c, "local_recurse",
             [nextparents |->
                awkward_listoffsetarray_reduce_local_nextparents_64(
                  offsets, len)])
    [] c.pc = "local_recurse" ->
         ContentAnswered(c, "local_outoffsets",
           [trimmed |-> Trimmed(c.self, f)],
           call_next("reduce_next", Trimmed(c.self, f), c.args.how,
                     LocalNegaxis(c.args.negaxis), LocalStarts(offsets),
                     f.nextparents, LocalOutlength(offsets), c.args.keepdims))
    [] c.pc = "local_outoffsets" ->
         Returned(c,
           [outoffsets |-> awkward_listoffsetarray_reduce_local_outoffsets_64(
                             c.args.parents, Len(c.args.parents),
                             c.args.outlength)],
           LocalWrap(c.args.parents, c.args.outlength, f.outcontent))

\* reduce_next of the i64 layer from one kernel invocation to the next
Advance(c) ==
  IF c.pc = "call"
  THEN IF TakesNonlocal(c.self, c.args.negaxis)
       THEN IF ParentsMismatch(c.self.offsets, c.args.parents)
            THEN [c EXCEPT !.pc = "thrown", !.result = MismatchError]
            ELSE [c EXCEPT !.pc = "nonlocal_startstop"]
       ELSE [c EXCEPT !.pc = "local_startstop"]
  ELSE IF c.pc \in {"local_startstop", "local_nextparents", "local_recurse",
                    "local_outoffsets"}
       THEN AdvanceLocal(c, c.self.offsets, Len(c.self.offsets) - 1, c.frame)
       ELSE AdvanceNonlocal(c, c.self.offsets, Len(c.self.offsets) - 1, c.frame)

\* the two calls that run at once
Calls == {1, 2}

\* a slip: the scratch arrays are static, one set for every call
ScratchStatic(c) == 0

\* where the locals of call c live: every Index64 of reduce_next is
\* constructed in the call, and nothing outlives it (frame[0] is what the
\* calls would share)
ScratchOf(c) == c

\* call c, as the variables hold it
CallOf(c) == Call(self[c], args[c], pc[c], frame[ScratchOf(c)], result[c])

Stepped(c, after) ==
  /\ pc' = [pc EXCEPT ![c] = after.pc]
  /\ frame' = [frame EXCEPT ![ScratchOf(c)] = after.frame]
  /\ result' = [result EXCEPT ![c] = after.result]
  /\ kernels' = [kernels EXCEPT ![c] = IF pc[c] = "call" THEN @
                                       ELSE Append(@, pc[c])]

\* call c runs up to its next kernel invocation, whatever the other one does
StepOf(c) ==
  /\ pc[c] \notin {"done", "thrown"}
  /\ Stepped(c, Advance(CallOf(c)))
  /\ UNCHANGED <<op, receiver, self, args, passed, reduced>>

\* the layers of the two calls, over one buffer or over two
ConcurrentLayers ==
  {ListOffsetArray64(offsets, NumpyArray(data)) :
     offsets \in {<<0, 1, 3>>, <<1, 3, 3>>, <<0, 3>>},
     data \in {Tape(3), <<7, 8, 9>>}}

ConcurrentArgs(layer) ==
  {Args(how, negaxis, <<0>>, Zeros(length(layer)), 1, FALSE) :
     how \in {Reducer("sum", 0), Reducer("argmax", 0)}, negaxis \in 1..2}

\* two calls of reduce_next have been made, none has run
InitConcurrent ==
  \E first \in ConcurrentLayers, second \in ConcurrentLayers :
    \E a \in ConcurrentArgs(first), b \in ConcurrentArgs(second) :
      /\ op = "reduce_next"
      /\ receiver = <<first, second>>
      /\ self = <<first, second>>
      /\ args = <<a, b>>
      /\ pc = <<"call", "call">>
      /\ frame = [c \in {0} \cup Calls |-> <<>>]
      /\ kernels = << <<>>, <<>> >>
      /\ passed = None
      /\ reduced = <<>>
      /\ result = <<None, None>>

NextConcurrent == \E c \in Calls : StepOf(c)

SpecConcurrent == InitConcurrent /\ [][NextConcurrent]_vars

\* ------------------------------------------------------------------ the kernels alone

KernelValues == 0..MaxVal

\* starts[j], the position of the first element of group j when the groups
\* lie one after the other
GroupStarts(parents, outlength) ==
  [j \in 1..outlength |->
     Cardinality({k \in 1..Len(parents) : parents[k] < j - 1})]

\* a reducer applied to a flat input; argmin and argmax also over NaN
InitKernel ==
  \/ \E reducer \in {Reducer(name, 0) : name \in ReducerNames \ {"min", "max"}}
                      \cup {Reducer("min", MaxVal + 1), Reducer("min", 1),
                            Reducer("max", -1), Reducer("max", 1)},
        n \in 0..MaxKernelLen, outlength \in 0..MaxOut :
       \E data \in SeqsOfLen(IF IsArg(reducer) THEN KernelValues \cup {NaN}
                             ELSE KernelValues, n),
          parents \in SeqsOfLen(0..(outlength - 1), n) :
         Called("reduce_next", NumpyArray(data),
                Args(reducer, 1, GroupStarts(parents, outlength), parents,
                     outlength, FALSE))
  \/ Called("reduce_next", NumpyArray(<<1, 5, 2, NaN, 30, 30>>),
            Args(Reducer("argmax", 0), 1, <<0, 4, 4>>, <<0, 0, 0, 0, 2, 2>>,
                 3, FALSE))
  \/ Called("reduce_next", NumpyArray(<<5, 3, 9, 2>>),
            Args(Reducer("min", 2147483647), 1, <<0, 2, 2>>, <<0, 0, 2, 2>>,
                 3, FALSE))

NextKernel == LeafReduce

SpecKernel == InitKernel /\ [][NextKernel]_vars

\* ------------------------------------------------------------------ the integer accumulators alone

\* most elements of an enumerated input of machine integers
MaxWords == 3

\* a NumpyArray of machine integers of one type
NumpyArrayOf(type, data) ==
  [class |-> "NumpyArray", type |-> type, data |-> data]

\* the leaf of an integer sum or prod: the kernel of the accumulator's type;
\* the kernel's Error is success whatever the values
LeafReduceWords ==
  /\ pc = "call" /\ op = "reduce_next" /\ self.class = "NumpyArray"
  /\ args.how.name \in {"sum", "prod"}
  /\ result' = NumpyArrayOf(self.type,
                 IF args.how.name = "sum"
                 THEN awkward_reduce_sum_64(self.type, self.data, args.parents,
                                            args.outlength)
                 ELSE awkward_reduce_prod_64(self.type, self.data, args.parents,
                                             args.outlength))
  /\ kernels' = Append(kernels, "reduce")
  /\ pc' = "done"
  /\ UNCHANGED <<op, receiver, self, args, frame, passed, reduced>>

\* the largest signed value of n bytes
LargestSigned(n) == [i \in 1..n |-> IF i = n THEN 127 ELSE 255]

\* 3, the pattern of all ones (-1, or the largest unsigned value) and the
\* largest signed value
WordValues(type) ==
  {WordOf(v, Bytes(type)) : v \in {3, -1}} \cup {LargestSigned(Bytes(type))}

\* an integer sum or prod applied to a flat input, two groups
InitWords ==
  \E name \in {"sum", "prod"}, type \in AccumulatorTypes, n \in 0..MaxWords :
    \E data \in SeqsOfLen(WordValues(type), n), parents \in SeqsOfLen(0..1, n) :
      Called("reduce_next", NumpyArrayOf(type, data),
             Args(Reducer(name, 0), 1, <<0, 0>>, parents, 2, FALSE))

NextWords == LeafReduceWords

SpecWords == InitWords /\ [][NextWords]_vars

\* ------------------------------------------------------------------ the indirection kernels alone

\* an indexed layer (index of 32 signed, 32 unsigned or 64 bits), a negative
\* index a missing entry
IndexedArray(class, index, content) ==
  [class |-> class, index |-> index, content |-> content]

IndexedClasses == {"IndexedArray32", "IndexedArrayU32", "IndexedArray64"}

\* a byte-masked layer, entry i there when its mask byte says validwhen
ByteMaskedArray(mask, content, validwhen) ==
  [class |-> "ByteMaskedArray", mask |-> mask, content |-> content,
   validwhen |-> validwhen]

\* a slip: index 0 is taken for a missing entry
IndexedKeptPositive(index, i) == index[i + 1] > 0

\* entry i of an indexed layer is there
IndexedKept(index, i) == index[i + 1] >= 0

\* entry i of a byte-masked layer is there
MaskKept(mask, validwhen, i) == (mask[i + 1] # 0) = validwhen

RECURSIVE indirection_loop(_, _, _, _, _)
\* for (i = 0; i < length; i++): an entry that is there is appended to
\* nextcarry and nextparents and its outindex is its rank k, k++; one that is
\* missing has outindex -1
indirection_loop(kept, carried, parents, i, out) ==
  IF i >= Len(kept) THEN out
  ELSE indirection_loop(kept, carried, parents, i + 1,
         IF kept[i + 1]
         THEN [nextcarry |-> Append(out.nextcarry, carried[i + 1]),
               nextparents |-> Append(out.nextparents, parents[i + 1]),
               outindex |-> Append(out.outindex, Len(out.nextcarry))]
         ELSE [out EXCEPT !.outindex = Append(@, -1)])

\* awkward_indexedarray32/U32/64_reduce_next_64
awkward_indexedarray_reduce_next_64(index, parents, len) ==
  indirection_loop([i \in 1..len |-> IndexedKept(index, i - 1)], index,
                   parents, 0,
                   [nextcarry |-> <<>>, nextparents |-> <<>>, outindex |-> <<>>])

awkward_bytemaskedarray_reduce_next_64(mask, parents, len, validwhen) ==
  indirection_loop([i \in 1..len |-> MaskKept(mask, validwhen, i - 1)],
                   [i \in 1..len |-> i - 1], parents, 0,
                   [nextcarry |-> <<>>, nextparents |-> <<>>, outindex |-> <<>>])

\* reduce_next of an indexed or byte-masked layer, up to the call on the
\* content: the kernel fills nextcarry, nextparents and outindex
IndirectionReduceNext ==
  /\ pc = "call" /\ op = "reduce_next"
  /\ self.class \in IndexedClasses \cup {"ByteMaskedArray"}
  /\ frame' = IF self.class = "ByteMaskedArray"
              THEN awkward_bytemaskedarray_reduce_next_64(
                     self.mask, args.parents, Len(self.mask), self.validwhen)
              ELSE awkward_indexedarray_reduce_next_64(
                     self.index, args.parents, Len(self.index))
  /\ kernels' = Append(kernels, "reduce_next")
  /\ pc' = "indirection_recurse"
  /\ UNCHANGED <<op, receiver, self, args, passed, reduced, result>>

\* the values of an index: unsigned ones are never negative
IndexValues(class) ==
  IF class = "IndexedArrayU32" THEN 0..MaxVal ELSE (-2)..MaxVal

IndirectionLayers(n) ==
  {IndexedArray(class, index, NumpyArray(Tape(MaxVal + 1))) :
     class \in IndexedClasses, index \in SeqsOfLen((-2)..MaxVal, n)}
    \cup {ByteMaskedArray(mask, NumpyArray(Tape(n)), validwhen) :
            mask \in SeqsOfLen({0, 1}, n), validwhen \in BOOLEAN}

InitIndirection ==
  \E n \in 0..MaxKernelLen :
    \E layer \in IndirectionLayers(n), parents \in SeqsOfLen(0..1, n) :
      /\ IsNonDecreasing(parents)
      /\ layer.class \in IndexedClasses =>
           \A i \in 1..n : layer.index[i] \in IndexValues(layer.class)
      /\ Called("reduce_next", layer,
                Args(Reducer("sum", 0), 1, <<0, 0>>, parents, 2, FALSE))

NextIndirection == IndirectionReduceNext

SpecIndirection == InitIndirection /\ [][NextIndirection]_vars

\* ------------------------------------------------------------------ the paths

NonlocalPcs ==
  {"nonlocal_startstop", "nonlocal_maxcount", "nonlocal_preparenext",
   "nonlocal_nextstarts", "nonlocal_recurse", "nonlocal_findgaps",
   "nonlocal_outstartsstops", "nonlocal_outcarry"}

LocalPcs ==
  {"local_startstop", "local_nextparents", "local_recurse", "local_outoffsets"}

\* the call is on, or has returned from, the non-local path
OnNonlocalPath == pc \in NonlocalPcs \/ "nextcontent" \in DOMAIN frame

\* the call is on, or has returned from, the local path
OnLocalPath == pc \in LocalPcs \/ "trimmed" \in DOMAIN frame

\* the call threw at the precondition check of the non-local branch
ThrewAtCheck == pc = "thrown" /\ passed = None

\* C1: reduce_next on an i64 list layer takes the non-local path exactly when
\* the subtree does not branch and negaxis equals the depth that branch_depth
\* gives, and the local path in every other case; the local path hands the
\* content the same negaxis, the non-local path negaxis - 1.
C1_PathByBranchDepth ==
  op = "reduce_next" /\ OnList /\ pc # "call" =>
    LET targeted == /\ ~branch_depth(self)[1]
                    /\ args.negaxis = branch_depth(self)[2]
    IN  /\ (OnNonlocalPath \/ ThrewAtCheck) <=> targeted
        /\ OnLocalPath <=> ~targeted
        /\ passed # None =>
             passed.negaxis = IF targeted THEN args.negaxis - 1
                              ELSE args.negaxis

\* a list whose content branches was reduced at its own depth on the local
\* path, and another list on the non-local path
C1_Witness ==
  /\ op = "reduce_next" /\ OnList /\ pc = "done"
  /\ \/ /\ branch_depth(self)[1]
        /\ args.negaxis = branch_depth(self)[2]
        /\ OnLocalPath
        /\ passed.negaxis = args.negaxis
     \/ /\ self.content.class = "ListOffsetArray64"
        /\ OnNonlocalPath
        /\ passed.negaxis = args.negaxis - 1

\* C2: on the non-local branch of reduce_next, sort_next and argsort_next, when
\* offsets.length - 1 differs from parents.length the call throws before any
\* kernel has run or any scratch array exists, and returns no result; when the
\* two are equal the check does not throw.
C2_MismatchThrowsFirst ==
  /\ OnList /\ pc # "call"
       /\ ~branch_depth(self)[1] /\ args.negaxis = branch_depth(self)[2] =>
       IF Len(self.offsets) - 1 # Len(args.parents)
       THEN /\ pc = "thrown"
            /\ result = MismatchError
            /\ kernels = <<>>
            /\ frame = <<>>
            /\ passed = None
       ELSE ~ThrewAtCheck
  /\ pc = "thrown" => IsError(result) /\ ~ENABLED Next

C2_Witness ==
  /\ OnList /\ pc = "thrown" /\ op = "argsort_next"
  /\ Len(self.offsets) - 1 # Len(args.parents)
  /\ result = MismatchError

\* ------------------------------------------------------------------ what is returned

\* the list under the RegularArray that keepdims adds
Unwrapped(r) == IF r.class = "RegularArray" THEN r.content ELSE r

\* the sublists of self that parents puts in group j
Group(j) ==
  {i \in 0..(Len(self.offsets) - 2) : i + 1 <= Len(args.parents)
                                       /\ args.parents[i + 1] = j}

\* the length of sublist i of self
SublistLen(i) == self.offsets[i + 2] - self.offsets[i + 1]

\* the sublists of group j that have a position c
Occupying(j, c) == {i \in Group(j) : SublistLen(i) > c}

\* content[offsets[i] + c] summed over the sublists i of group j with a
\* position c
SlotSum(j, c) ==
  SetSum([i \in Occupying(j, c) |-> self.content.data[self.offsets[i + 1] + c + 1]],
         Occupying(j, c))

\* a reduction of a list of numbers returned from the non-local path
NonlocalReduced ==
  /\ op = "reduce_next" /\ OnList /\ pc = "done" /\ OnNonlocalPath

\* C3: on the non-local path with a sum reducer, for every group j in
\* [0, outlength) and every position c that a sublist of the group has, the
\* value at position c of output sublist j is the sum of content[offsets[i] + c]
\* over the sublists i with parents[i] = j and offsets[i+1] - offsets[i] > c.
C3_NonlocalSumBySlot ==
  NonlocalReduced /\ args.how.name = "sum"
      /\ self.content.class = "NumpyArray" =>
    LET out == Unwrapped(result)
    IN  \A j \in 0..(args.outlength - 1) :
          \A c \in 0..(Len(self.content.data) - 1) :
            Occupying(j, c) # {} =>
              /\ c < out.stops[j + 1] - out.starts[j + 1]
              /\ out.content.data[out.starts[j + 1] + c + 1] = SlotSum(j, c)

\* two sublists of one group were summed position by position
C3_Witness ==
  /\ NonlocalReduced /\ args.how.name = "sum"
  /\ self.content.class = "NumpyArray"
  /\ \E j \in 0..(args.outlength - 1) :
       /\ Cardinality(Occupying(j, 0)) = 2
       /\ Cardinality(Occupying(j, 1)) = 1
       /\ LET out == Unwrapped(result)
          IN  out.content.data[out.starts[j + 1] + 1] = SlotSum(j, 0)

\* the longest sublist of group j, 0 for a group with no sublist
GroupMaxLen(j) == SetMax({0} \cup {SublistLen(i) : i \in Group(j)})

\* C4: a non-local reduction with parents in [0, outlength) returns a list of
\* length outlength whose j-th sublist is as long as the longest sublist of
\* group j, 0 for a group with no sublists or only empty ones.
C4_NonlocalShape ==
  NonlocalReduced =>
    LET out == Unwrapped(result)
    IN  /\ out.class = "ListArray64"
        /\ Len(out.starts) = args.outlength
        /\ Len(out.stops) = args.outlength
        /\ \A j \in 0..(args.outlength - 1) :
             out.stops[j + 1] - out.starts[j + 1] = GroupMaxLen(j)

\* a group with no sublist next to a group of two sublists of unlike lengths
C4_Witness ==
  /\ NonlocalReduced /\ args.outlength = 2
  /\ \E j \in 0..1 :
       /\ Group(j) = {}
       /\ Cardinality(Group(1 - j)) = 2
       /\ GroupMaxLen(1 - j) = 2
       /\ Unwrapped(result).stops[2 - j] - Unwrapped(result).starts[2 - j] = 2
       /\ Unwrapped(result).stops[j + 1] = Unwrapped(result).starts[j + 1]

RECURSIVE RangeSum(_, _, _)
\* data[lo] + ... + data[hi - 1], in C indices
RangeSum(data, lo, hi) ==
  IF lo >= hi THEN 0 ELSE data[lo + 1] + RangeSum(data, lo + 1, hi)

\* a reduction of a list returned from, or about to return from, the local path
LocalReduced ==
  /\ op = "reduce_next" /\ OnList /\ OnLocalPath
  /\ "outcontent" \in DOMAIN frame

\* C5: a local sum over a list of numbers with offsets of length N + 1 gives,
\* for every sublist i in [0, N), the sum of content[offsets[i] .. offsets[i+1])
\* and 0 for an empty sublist; offsets [0,3,3,5,6] over [1..6] give [6,0,9,6];
\* local_nextparents gives parent i to every element of sublist i of the
\* content trimmed to [offsets[0], offsets[N]).
C5_LocalSumPerSublist ==
  /\ LocalReduced /\ args.how.name = "sum"
       /\ self.content.class = "NumpyArray" =>
       /\ Len(frame.outcontent.data) = Len(self.offsets) - 1
       /\ \A i \in 0..(Len(self.offsets) - 2) :
            /\ frame.outcontent.data[i + 1] =
                 RangeSum(self.content.data, self.offsets[i + 1],
                          self.offsets[i + 2])
            /\ SublistLen(i) = 0 => frame.outcontent.data[i + 1] = 0
       /\ self = Scenario1 => frame.outcontent.data = <<6, 0, 9, 6>>
  /\ OnList /\ OnLocalPath /\ "nextparents" \in DOMAIN frame =>
       /\ Len(frame.nextparents) =
            self.offsets[Len(self.offsets)] - self.offsets[1]
       /\ \A i \in 0..(Len(self.offsets) - 2) :
            \A k \in self.offsets[i + 1]..(self.offsets[i + 2] - 1) :
              frame.nextparents[k - self.offsets[1] + 1] = i

C5_Witness ==
  /\ LocalReduced /\ pc = "done" /\ args.how.name = "sum"
  /\ self = Scenario1
  /\ result.content.data = <<6, 0, 9, 6>>

\* the number of k with parents[k] = j
ParentCount(j) ==
  Cardinality({k \in 1..Len(args.parents) : args.parents[k] = j})

\* C6: the local path reduces the content with outlength = N, one entry per
\* sublist, and wraps the N results in outoffsets of length outlength + 1 with
\* outoffsets[j+1] - outoffsets[j] = |{k : parents[k] = j}| for non-decreasing
\* parents, so that outoffsets[0] = 0 and outoffsets[outlength] =
\* parents.length = N.
C6_LocalKeepsStructure ==
  LocalReduced /\ pc = "done"
      /\ self.content.class \in {"NumpyArray", "ListOffsetArray64"} =>
    LET N == Len(self.offsets) - 1
    IN  /\ passed.outlength = N
        /\ length(result.content) = N
        /\ Len(result.offsets) = args.outlength + 1
        /\ IsNonDecreasing(args.parents) =>
             /\ \A j \in 0..(args.outlength - 1) :
                  result.offsets[j + 2] - result.offsets[j + 1] = ParentCount(j)
             /\ result.offsets[1] = 0
             /\ result.offsets[args.outlength + 1] = Len(args.parents)
             /\ Len(args.parents) = N =>
                  result.offsets[args.outlength + 1] = length(result.content)

\* two sublists in two groups, reduced to two results under offsets [0,1,2]
C6_Witness ==
  /\ LocalReduced /\ pc = "done"
  /\ self.content.class = "NumpyArray"
  /\ Len(self.offsets) = 3
  /\ args.parents = <<0, 1>>
  /\ result.offsets = <<0, 1, 2>>
  /\ length(result.content) = 2

\* ------------------------------------------------------------------ lists of lists

\* sublist j of a returned list of numbers
Sublist(list, j) ==
  IF list.class = "ListArray64"
  THEN [c \in 1..(list.stops[j + 1] - list.starts[j + 1]) |->
          list.content.data[list.starts[j + 1] + c]]
  ELSE [c \in 1..(list.offsets[j + 2] - list.offsets[j + 1]) |->
          list.content.data[list.offsets[j + 1] + c]]

RECURSIVE ToList(_)
\* the lists an array stands for, down to its numbers
ToList(array) ==
  CASE array.class = "NumpyArray" -> array.data
    [] array.class \in ListClasses ->
         [i \in 1..(Len(array.offsets) - 1) |->
            SubSeq(ToList(array.content), array.offsets[i] + 1,
                   array.offsets[i + 1])]
    [] array.class \in ListArrayClasses ->
         [i \in 1..Len(array.starts) |->
            SubSeq(ToList(array.content), array.starts[i] + 1, array.stops[i])]

\* the sum of the numbers of outer group g of a list of lists of numbers
FlatSum(layer, g) ==
  SetSum([i \in 1..Len(ToList(layer)[g + 1]) |->
            SetSum(ToList(layer)[g + 1][i],
                   1..Len(ToList(layer)[g + 1][i]))],
         1..Len(ToList(layer)[g + 1]))

\* sum over axis=-1 of a list of lists, and sum over axis=-1 of what it gave
SummedTwice ==
  /\ op = "reduce_next" /\ args.how.name = "sum" /\ args.negaxis = 1
  /\ Len(reduced) = 1 /\ pc = "done"

\* C7 as stated: for outer offsets [0,2,3], inner offsets [0,2,3,3,5] and
\* content [1..5], sum over axis=-1 of the inner list and then over axis=-1 of
\* the outer list gives [6, 9].
C7_Original ==
  SummedTwice /\ reduced[1] = Scenario3 => result.content.data = <<6, 9>>

\* C7 as amended: the two sums give [6, 0], the flat sum of the elements of
\* each outer group: the outer offsets [0,2,3] put the inner lists [1,2] and
\* [3] in group 0 and the empty inner list in group 1, and leave [4,5] out.
C7_SumOfSums ==
  SummedTwice =>
    /\ Len(result.content.data) = Len(reduced[1].offsets) - 1
    /\ \A g \in 0..(Len(reduced[1].offsets) - 2) :
         result.content.data[g + 1] = FlatSum(reduced[1], g)
    /\ reduced[1] = Scenario3 =>
         /\ self = ListOffsetArray64(<<0, 2, 3>>, NumpyArray(<<3, 3, 0>>))
         /\ result.content.data = <<6, 0>>

C7_Witness ==
  /\ SummedTwice /\ reduced[1] = Scenario3
  /\ result.content.data = <<6, 0>>

\* sum at axis=-2 of the list of lists with an empty first outer group
SummedAcross ==
  /\ op = "reduce_next" /\ args.how.name = "sum" /\ args.negaxis = 2
  /\ self = Scenario4 /\ pc = "done"

\* C8 as stated: for outer offsets [0,0,2], inner offsets [0,1,2] and content
\* [7,8], the sum at axis=-2 has length 2, group 0 is the identity 0 and
\* group 1 is [7, 8].
C8_Original ==
  SummedAcross =>
    /\ length(result.content) = 2
    /\ Sublist(result.content, 0) \in {<<>>, <<0>>}
    /\ Sublist(result.content, 1) = <<7, 8>>

\* C8 as amended: the sum at axis=-2 has length 2, group 0 is the empty list
\* and group 1 is [15]: 7 and 8 are the first elements of the two inner lists
\* of group 1 and are summed into one slot.
C8_EmptyGroupAndSlot ==
  SummedAcross =>
    /\ result.content.class = "ListArray64"
    /\ length(result.content) = 2
    /\ Sublist(result.content, 0) = <<>>
    /\ Sublist(result.content, 1) = <<15>>

C8_Witness ==
  /\ SummedAcross
  /\ passed.content.class = "ListOffsetArray64"
  /\ passed.parents = <<1, 1>>
  /\ Sublist(result.content, 1) = <<15>>

\* ------------------------------------------------------------------ the reducers

\* a reducer's kernel has returned
KernelReduced ==
  /\ op = "reduce_next" /\ self.class = "NumpyArray" /\ pc = "done"

\* the k of group j
Members(j) == {k \in 0..(Len(args.parents) - 1) : args.parents[k + 1] = j}

\* C9: for every reducer and every output index j in [0, outlength) that no
\* parents[k] equals, output j is the identity: 0 for count, countnonzero and
\* sum, 1 for prod, the caller's identity for min and max, -1 for argmin and
\* argmax; [5,3,9,2] in groups 0 and 2 of 3 with identity INT_MAX gives
\* [3, INT_MAX, 2].
C9_EmptyGroupIdentity ==
  KernelReduced =>
    /\ \A j \in 0..(args.outlength - 1) :
         Members(j) = {} =>
           result.data[j + 1] =
             CASE args.how.name \in {"count", "countnonzero", "sum"} -> 0
               [] args.how.name = "prod" -> 1
               [] args.how.name \in {"min", "max"} -> args.how.identity
               [] args.how.name \in {"argmin", "argmax"} -> -1
    /\ self.data = <<5, 3, 9, 2>> /\ args.how = Reducer("min", 2147483647) =>
         result.data = <<3, 2147483647, 2>>

C9_Witness ==
  /\ KernelReduced
  /\ self.data = <<5, 3, 9, 2>> /\ args.how = Reducer("min", 2147483647)
  /\ Members(1) = {}
  /\ result.data = <<3, 2147483647, 2>>

\* argmin or argmax has returned for groups that lie one after the other,
\* starts[j] the position of the first element of group j
ArgReduced ==
  /\ KernelReduced /\ IsArg(args.how)
  /\ IsNonDecreasing(args.parents)
  /\ args.starts = GroupStarts(args.parents, args.outlength)

\* x is at least as extreme as y for the reducer; NaN is not
Extreme(x, y) ==
  /\ x # NaN
  /\ \/ y = NaN
     \/ IF args.how.name = "argmin" THEN x <= y ELSE x >= y

\* position k holds an extreme of its group, and no earlier position does
EarliestExtreme(j, k) ==
  /\ k \in Members(j)
  /\ \A m \in Members(j) : Extreme(self.data[k + 1], self.data[m + 1])
  /\ \A m \in Members(j) :
       m < k => ~Extreme(self.data[m + 1], self.data[k + 1])

\* every element of group j is NaN
AllNaN(j) == \A k \in Members(j) : self.data[k + 1] = NaN

FirstExtreme(j) ==
  IF AllNaN(j)
  THEN CHOOSE k \in Members(j) : \A m \in Members(j) : k <= m
  ELSE CHOOSE k \in Members(j) : EarliestExtreme(j, k)

\* C11: argmin and argmax store for every non-empty group k - starts[parents[k]],
\* k the first position at which the extreme of the group occurs; a later
\* element equal to the best so far does not replace it; the stored index is
\* the position within the group, in [0, group_len) (groups one after the
\* other, starts[j] the first position of group j).
C11_StoresPositionFromStarts ==
  ArgReduced =>
    \A j \in 0..(args.outlength - 1) :
      Members(j) # {} =>
        /\ result.data[j + 1] = FirstExtreme(j) - args.starts[j + 1]
        /\ \A k \in Members(j) :
             /\ k > FirstExtreme(j)
             /\ self.data[k + 1] = self.data[FirstExtreme(j) + 1]
             => result.data[j + 1] # k - args.starts[j + 1]
        /\ 0 <= result.data[j + 1]
        /\ result.data[j + 1] < Cardinality(Members(j))

\* a group that starts at 1 with its extreme twice, at 1 and at 2: 0 is stored
C11_Witness ==
  /\ ArgReduced
  /\ Len(self.data) = 3
  /\ Members(1) = {1, 2}
  /\ args.starts[2] = 1
  /\ self.data[2] = self.data[3] /\ self.data[2] # NaN
  /\ result.data[2] = 0

\* the receiver has 32-bit offsets
OtherWidthReceiver == receiver.class \in ListClasses \ {"ListOffsetArray64"}

\* C12: for 32-bit signed and unsigned offsets reduce_next, sort_next and
\* argsort_next return exactly what the same call returns on
\* toListOffsetArray64(start_at_zero = true) of the receiver, an i64 list from
\* zero of the same sublists; no strategy, local or non-local, ever runs on
\* offsets that are not i64.
C12_OtherWidthsConvertFirst ==
  /\ pc \in NonlocalPcs \cup LocalPcs => self.class = "ListOffsetArray64"
  /\ OtherWidthReceiver /\ pc # "call" =>
       /\ self = toListOffsetArray64(receiver, TRUE)
       /\ self.class = "ListOffsetArray64"
       /\ self.offsets[1] = 0
       /\ ToList(self) = ToList(receiver)
  /\ OtherWidthReceiver /\ pc \in {"done", "thrown"} =>
       result = call_next(op, toListOffsetArray64(receiver, TRUE), args.how,
                          args.negaxis, args.starts, args.parents,
                          args.outlength, args.keepdims)

\* a sort of a list with unsigned 32-bit offsets from 1 on has returned
C12_Witness ==
  /\ op = "sort_next" /\ pc = "done"
  /\ receiver.class = "ListOffsetArrayU32"
  /\ receiver.offsets[1] = 1 /\ Len(receiver.offsets) = 3
  /\ self.class = "ListOffsetArray64" /\ self.offsets[1] = 0
  /\ ~IsError(result)

\* a step of the descent: a conversion is of a list that is not i64, gives
\* an i64 list of the same depth (which no step converts again) and leaves
\* the arguments alone; a call on the content is on strictly
\* shallower content, with negaxis - 1 from the non-local path and negaxis
\* from the local path
DescentStep ==
  /\ pc = "call" /\ pc' = "call" =>
       /\ self.class # "ListOffsetArray64"
       /\ self'.class = "ListOffsetArray64"
       /\ branch_depth(self')[2] = branch_depth(self)[2]
       /\ args' = args
  /\ pc \in {"nonlocal_recurse", "local_recurse"} /\ pc' = "call" =>
       /\ branch_depth(self')[2] < branch_depth(self)[2]
       /\ args'.negaxis = IF pc = "nonlocal_recurse" THEN args.negaxis - 1
                          ELSE args.negaxis

\* C13: every reduce_next on a finite nesting of list layers over numbers
\* terminates: at most one conversion to i64 per layer, every call on the
\* content on strictly shallower content, negaxis one less from the non-local
\* path and the same from the local path, until the leaf kernel is reached
\* (or the call throws).
C13_DescentTerminates ==
  /\ [][DescentStep]_vars
  /\ <>(pc \in {"done", "thrown"})

\* the leaf kernel has run below two list layers, the inner one a carried list
\* that was converted
C13_Witness ==
  /\ pc = "done" /\ self.class = "NumpyArray" /\ kernels = <<"reduce">>
  /\ Len(reduced) = 2
  /\ reduced[1].class = "ListOffsetArray64"
  /\ reduced[2].class = "ListOffsetArray64"
  /\ passed.negaxis = 1

\* compact_offsets64 has returned an index
Compacted == op = "compact_offsets64" /\ pc = "returned"

\* the index is the receiver's offsets moved to start at zero
FromZero(out, offsets) ==
  /\ Len(out) = Len(offsets)
  /\ \A i \in 1..Len(offsets) : out[i] = offsets[i] - offsets[1]
  /\ out[1] = 0
  /\ \A i \in 1..(Len(offsets) - 1) :
       out[i + 1] - out[i] = offsets[i + 1] - offsets[i]

\* compact_offsets64 of the layer of these i64 offsets gives them back
CompactAgain(out, start_at_zero) ==
  compact_offsets64(ListOffsetArray64(out, receiver.content), start_at_zero)
    = out

\* C14 as stated: compact_offsets returns an index of the same length N + 1
\* with out[i] = offsets[i] - offsets[0], so out[0] = 0 and every sublist
\* length unchanged, and applied to its own output it returns the same index.
C14_Original ==
  Compacted =>
    /\ FromZero(result.data, receiver.offsets)
    /\ CompactAgain(result.data, args.start_at_zero)

\* C14 as amended: so it is with start_at_zero = true, and for 32-bit offsets
\* with either flag; an i64 layer asked with start_at_zero = false returns its
\* offsets as they are, out[0] = offsets[0]; in every case the index is as
\* long as the offsets and compacting it again returns it.
C14_CompactFromZero ==
  Compacted =>
    /\ Len(result.data) = Len(receiver.offsets)
    /\ CompactAgain(result.data, args.start_at_zero)
    /\ IF args.start_at_zero \/ receiver.class # "ListOffsetArray64"
       THEN FromZero(result.data, receiver.offsets)
       ELSE result.data = receiver.offsets

\* offsets [1, 2, 3] are compacted to [0, 1, 2]
C14_Witness ==
  /\ Compacted /\ args.start_at_zero
  /\ receiver.class = "ListOffsetArray64"
  /\ receiver.offsets = <<1, 2, 3>>
  /\ result.data = <<0, 1, 2>>
  /\ kernels = <<"compact_offsets64">>

\* toListOffsetArray64(start_at_zero = true) has been called on a valid layer
ConvertedFromZero == op = "toListOffsetArray64" /\ args.start_at_zero

\* C15: toListOffsetArray64(start_at_zero = true) of a valid list layer of any
\* offset width returns an i64 layer with offsets[0] = 0, as many sublists,
\* and in every sublist the same elements in the same order; applied to what
\* it returned it returns the identical offsets and content.
C15_ToListOffsetArray64 ==
  ConvertedFromZero =>
    /\ pc = "returned"
    /\ result.class = "ListOffsetArray64"
    /\ result.offsets[1] = 0
    /\ Len(result.offsets) = Len(receiver.offsets)
    /\ ToList(result) = ToList(receiver)
    /\ toListOffsetArray64(result, TRUE).offsets = result.offsets
    /\ toListOffsetArray64(result, TRUE).content = result.content

\* [[], [2, 4]] with unsigned 32-bit offsets [1, 1, 3] over [1, 2, 4] becomes
\* offsets [0, 0, 2] over [2, 4]
C15_Witness ==
  /\ ConvertedFromZero /\ pc = "returned"
  /\ receiver.class = "ListOffsetArrayU32"
  /\ receiver.offsets = <<1, 1, 3>>
  /\ receiver.content = NumpyArray(<<1, 2, 4>>)
  /\ result = ListOffsetArray64(<<0, 0, 2>>, NumpyArray(<<2, 4>>))

\* the list layers in sight: the one held, the one called, the one returned
LayersInSight == {l \in {self, receiver, result} : l.class \in ListClasses}

\* C16: every list layer that exists after any sequence of construction,
\* getitem_range, getitem_range_nowrap, toListOffsetArray64 and reduce_next
\* has offsets of length at least 1, so its length() is never negative; the
\* constructor rejects offsets of length 0 with invalid_argument and no layer
\* comes of it.
C16_OffsetsNeverEmpty ==
  /\ \A l \in LayersInSight : Len(l.offsets) >= 1 /\ length(l) >= 0
  /\ op = "ListOffsetArray" /\ pc # "new" =>
       IF Len(args.offsets) = 0
       THEN /\ pc = "thrown"
            /\ result.class = "Error" /\ result.kind = "invalid_argument"
            /\ self = None
       ELSE /\ pc = "returned"
            /\ self = result /\ self.offsets = args.offsets

\* an empty range of a converted list of lists: offsets of length 1, length 0
C16_Witness ==
  /\ op = "getitem_range_nowrap" /\ pc = "returned"
  /\ receiver.content.class \in ListArrayClasses
  /\ args.start = args.stop
  /\ Len(result.offsets) = 1 /\ length(result) = 0

\* getitem_at_nowrap has run to its end, called as it is or by getitem_at
AtSublist ==
  /\ pc \in {"returned", "thrown"}
  /\ \/ op = "getitem_at_nowrap"
     \/ op = "getitem_at" /\ ~AtOutOfRange(receiver, args.at)

\* the sublist asked for
AtIndex ==
  IF op = "getitem_at" THEN RegularAt(receiver, args.at) ELSE args.at

AtFrom == receiver.offsets[AtIndex + 1]

AtTo == receiver.offsets[AtIndex + 2]

\* the call threw the failure that names sublist i
FailedNaming(i) ==
  /\ pc = "thrown"
  /\ result.class = "Error"
  /\ result.attempt = i

\* the call returned content[AtFrom .. AtTo)
ReturnedSublist ==
  /\ pc = "returned"
  /\ ToList(result) = SubSeq(ToList(receiver.content), AtFrom + 1, AtTo)

\* C17 as stated: getitem_at and getitem_at_nowrap of sublist i fail with an
\* error naming i, and return no sublist, wherever offsets[i] > offsets[i+1]
\* or offsets[i+1] > content.length; where the offsets are monotone and within
\* content.length they return content[offsets[i] .. offsets[i+1]) (checked
\* here for offsets that are not negative).
C17_Original ==
  AtSublist /\ AtFrom >= 0 /\ AtTo >= 0 =>
    IF AtFrom > AtTo \/ AtTo > length(receiver.content)
    THEN FailedNaming(AtIndex)
    ELSE ReturnedSublist

\* C17 as amended: they fail, naming i, wherever offsets[i] # offsets[i+1] and
\* offsets[i] < 0, offsets[i] > offsets[i+1] or offsets[i+1] > content.length;
\* everywhere else they return content[offsets[i] .. offsets[i+1]), which for
\* offsets[i] = offsets[i+1] is the empty sublist whatever the two offsets are.
C17_SublistOrFailure ==
  AtSublist =>
    IF /\ AtFrom # AtTo
       /\ AtFrom < 0 \/ AtFrom > AtTo \/ AtTo > length(receiver.content)
    THEN FailedNaming(AtIndex)
    ELSE ReturnedSublist

\* offsets [3, 4, 4] over a content of 3: sublist 0 fails, sublist 1 is empty
C17_Witness ==
  /\ AtSublist /\ op = "getitem_at"
  /\ args.at = -1
  /\ receiver.offsets = <<3, 4, 4>>
  /\ length(receiver.content) = 3
  /\ pc = "returned" /\ result = NumpyArray(<<>>)

\* the number of sublists of the layer getitem_at was called on
AtLength == Len(receiver.offsets) - 1

\* the sublist getitem_at(at) stands for: at, or at + N for a negative at
AtWrapped == IF args.at < 0 THEN args.at + AtLength ELSE args.at

\* C18: getitem_at(at) returns sublist at for 0 <= at < N and sublist at + N
\* for -N <= at < 0; for every other at it fails with 'index out of range',
\* the error carrying the at it was given; the check is made against
\* offsets.length - 1 before any offset is read.
C18_GetitemAtWraps ==
  op = "getitem_at" =>
    IF -AtLength <= args.at /\ args.at < AtLength
    THEN /\ pc = "getitem_at_nowrap" =>
              frame.regular_at = AtWrapped /\ kernels = <<>>
         /\ pc # "getitem_at_nowrap" =>
              /\ result = getitem_at_nowrap(receiver, AtWrapped)
              /\ Valid(receiver) =>
                   /\ pc = "returned"
                   /\ ToList(result) = ToList(receiver)[AtWrapped + 1]
    ELSE /\ pc = "thrown"
         /\ result.class = "Error"
         /\ result.message = "index out of range"
         /\ result.attempt = args.at
         /\ kernels = <<>>

\* at = -1 of [[1], [2, 4]] is [2, 4]
C18_Witness ==
  /\ op = "getitem_at" /\ pc = "returned"
  /\ args.at = -1
  /\ receiver.offsets = <<0, 1, 3>>
  /\ receiver.content = NumpyArray(<<1, 2, 4>>)
  /\ result = NumpyArray(<<2, 4>>)
  /\ kernels = <<"offsets.getitem_at_nowrap", "offsets.getitem_at_nowrap">>

\* the call threw invalid_argument before it ran any kernel
RejectedAtEntry ==
  /\ pc = "thrown"
  /\ result.class = "Error" /\ result.kind = "invalid_argument"
  /\ kernels = <<>>

\* the arguments of the call that has ended are a misuse
Misused ==
  \/ op = "combinations" /\ args.n < 1
  \/ op = "broadcast_tooffsets64"
       /\ (Len(args.offsets) = 0 \/ args.offsets[1] # 0)
  \/ op = "offsets_and_flattened" /\ args.axis = args.depth

\* C19: a misuse of the arguments is rejected at the entry with
\* invalid_argument, before anything is computed: combinations with n < 1,
\* whatever the axis; broadcast_tooffsets64 to offsets that are empty or do
\* not start at 0; flatten (offsets_and_flattened) at the axis that is the
\* current depth. A valid layer called without such a misuse is not rejected
\* so, but for a broadcast to more sublists than it has.
C19_MisuseRejectedAtEntry ==
  /\ Misused =>
       /\ RejectedAtEntry
       /\ result.message \in
            {"in combinations, 'n' must be at least 1",
             "broadcast_tooffsets64 can only be used with offsets that start at 0",
             "axis=0 not allowed for flatten"}
  /\ op \in {"combinations", "offsets_and_flattened"} /\ ~Misused =>
       pc = "returned"
  /\ op = "broadcast_tooffsets64" /\ ~Misused /\ RejectedAtEntry =>
       Len(args.offsets) > Len(receiver.offsets)

\* combinations with n = 0 along the axis of the layer itself is rejected
C19_Witness ==
  /\ op = "combinations" /\ args.n = 0 /\ args.axis = args.depth
  /\ RejectedAtEntry
  /\ result.message = "in combinations, 'n' must be at least 1"

\* sort_next of an i64 list of numbers has returned from the local path: the
\* sort is within every sublist
SortedWithinSublists ==
  /\ op = "sort_next" /\ pc = "done" /\ OnLocalPath
  /\ self.class = "ListOffsetArray64" /\ self.content.class = "NumpyArray"

\* s holds the elements of t, each as often, in the order asked for
SortedPermutation(s, t, ascending) ==
  /\ Len(s) = Len(t)
  /\ \A x \in {t[k] : k \in 1..Len(t)} :
       Cardinality({k \in 1..Len(s) : s[k] = x})
         = Cardinality({k \in 1..Len(t) : t[k] = x})
  /\ \A k \in 1..(Len(s) - 1) :
       IF ascending THEN s[k] <= s[k + 1] ELSE s[k] >= s[k + 1]

\* C20: sort_next on a list layer returns a list with the offsets of the
\* input in which every sublist is a permutation of the input's sublist and
\* monotone in the order asked for, for every valid i64 offsets, those that do
\* not start at zero included (stated for the sort within the sublists).
C20_SortKeepsSublists ==
  SortedWithinSublists =>
    /\ Unwrapped(result).class = "ListOffsetArray64"
    /\ Unwrapped(result).offsets = self.offsets
    /\ \A j \in 0..(Len(self.offsets) - 2) :
         \/ Unwrapped(result).offsets[j + 1] = Unwrapped(result).offsets[j + 2]
         \/ /\ Unwrapped(result).offsets[j + 2]
                  <= length(Unwrapped(result).content)
            /\ SortedPermutation(Sublist(Unwrapped(result), j),
                                 Sublist(self, j), args.how)

\* ------------------------------------------------------------------ overflow

\* the word a of n bytes read in more bytes: two's complement for a signed
\* type, a natural number for an unsigned one
Extend(a, signed, n) ==
  [i \in 1..n |->
     IF i <= Len(a) THEN a[i]
     ELSE IF signed /\ a[Len(a)] >= 128 THEN 255 ELSE 0]

\* bytes enough to hold the sum, or the product, of count words of the type
ExactBytes(name, type, count) ==
  IF name = "sum" THEN Bytes(type) + 1 ELSE Bytes(type) * Max2(count, 1)

RECURSIVE ExactFrom(_, _, _, _, _, _, _)
\* the mathematical sum or product of the elements of group j from position k
\* on, in n bytes, no byte of it lost
ExactFrom(name, signed, n, data, parents, j, k) ==
  IF k > Len(data) THEN WordOf(IF name = "sum" THEN 0 ELSE 1, n)
  ELSE IF parents[k] # j
       THEN ExactFrom(name, signed, n, data, parents, j, k + 1)
       ELSE IF name = "sum"
            THEN AddWord(Extend(data[k], signed, n),
                         ExactFrom(name, signed, n, data, parents, j, k + 1))
            ELSE MulWord(Extend(data[k], signed, n),
                         ExactFrom(name, signed, n, data, parents, j, k + 1))

\* the mathematical result of group j of the call
Exact(j) ==
  ExactFrom(args.how.name, IsSigned(self.type),
            ExactBytes(args.how.name, self.type, Len(self.data)),
            self.data, args.parents, j, 1)

WordsReduced == pc = "done" /\ "type" \in DOMAIN self

\* the mathematical result of group j does not fit the accumulator
Overflows(j) ==
  Extend(SubSeq(Exact(j), 1, Bytes(self.type)), IsSigned(self.type),
         Len(Exact(j))) # Exact(j)

\* C21: an integer sum or prod reports no error, and the result of every
\* group is the mathematical sum or product of the group's elements modulo
\* 2^w, w the width of the accumulator (64 or 32), which for a signed
\* accumulator is the two's complement pattern of that number
C21_SumProdWrap ==
  WordsReduced =>
    /\ ~IsError(result)
    /\ Len(result.data) = args.outlength
    /\ \A j \in 0..(args.outlength - 1) :
         result.data[j + 1] = SubSeq(Exact(j), 1, Bytes(self.type))

\* a product of MaxWords elements has overflowed a signed 64-bit accumulator
C21_Witness ==
  /\ WordsReduced
  /\ args.how.name = "prod" /\ self.type = "int64"
  /\ Overflows(0)
  /\ Len(self.data) = MaxWords

\* ------------------------------------------------------------------ count

\* C22: the count reducer returns, for every j in [0, outlength), the number
\* of positions k in [0, lenparents) with parents[k] = j, whatever the order
\* of the values of parents in [0, outlength)
C22_CountPerParent ==
  KernelReduced /\ args.how.name = "count" =>
    /\ Len(result.data) = args.outlength
    /\ \A j \in 0..(args.outlength - 1) :
         result.data[j + 1] = Cardinality(Members(j))

\* count has returned for parents that are not sorted
C22_Witness ==
  /\ KernelReduced /\ args.how.name = "count"
  /\ args.parents = <<1, 0, 1>>
  /\ result.data = <<1, 2>>

\* ------------------------------------------------------------------ the inputs are kept

\* a step of the body of one call on the i64 layer: not the conversion of
\* another width, not the caller's next call
BodyStep == self.class = "ListOffsetArray64" /\ pc # "done"

\* every local the call has set keeps its value, offsetscopy apart
LocalsKept ==
  \A n \in DOMAIN frame \ {"offsetscopy"} :
    n \in DOMAIN frame' /\ frame'[n] = frame[n]

\* C23: reduce_next (and the two sorts) changes none of its inputs, on either
\* path: at every step of the call the layer (its offsets and its content)
\* and the caller's arguments (parents, starts) keep their values, and of the
\* arrays of the call only offsetscopy is written again once it is set
C23_InputsUnchanged ==
  [][BodyStep => /\ self' = self
                 /\ args' = args
                 /\ receiver' = receiver
                 /\ LocalsKept]_vars

\* a call on the non-local path has returned: offsetscopy has been advanced
\* past every sublist, the layer's offsets are those the call began with
C23_Witness ==
  /\ pc = "done" /\ op = "reduce_next"
  /\ "offsetscopy" \in DOMAIN frame
  /\ frame.offsetscopy # self.offsets
  /\ self = receiver
  /\ self.offsets[1] > 0

\* ------------------------------------------------------------------ calls that interleave

RECURSIVE RunTo(_, _)
\* the call run alone, from one kernel invocation to the next, until it is
\* at the given place or has ended
RunTo(c, at) ==
  IF c.pc = at \/ c.pc \in {"done", "thrown"} THEN c
  ELSE RunTo(Advance(c), at)

\* call c run alone up to where it is now
Alone(c) == RunTo(Call(receiver[c], args[c], "call", <<>>, None), pc[c])

\* C24: of two calls of reduce_next whose kernel invocations interleave, on
\* two buffers or on one that both only read, each has at every place the
\* locals, and returns the result, it has when it runs alone; its scratch
\* arrays are its own and nothing is kept for a later call
C24_CallsIndependent ==
  /\ \A c \in Calls :
       Call(self[c], args[c], pc[c], frame[c], result[c]) = Alone(c)
  /\ frame[0] = <<>>
  /\ self = receiver

\* both calls are on the non-local path of one layer, between kernel
\* invocations: each has its own offsetscopy, the first one advanced
C24_Witness ==
  /\ DOMAIN pc = Calls
  /\ pc[1] = "nonlocal_nextstarts" /\ pc[2] = "nonlocal_preparenext"
  /\ self[1] = self[2]
  /\ frame[1].offsetscopy # frame[2].offsetscopy

\* ------------------------------------------------------------------ missing entries

IndirectionPrepared == pc = "indirection_recurse"

\* the number of entries of the layer
Entries ==
  IF self.class = "ByteMaskedArray" THEN Len(self.mask) ELSE Len(self.index)

\* entry i of the layer is missing: a negative index, a mask byte that is not
\* validwhen
Missing(i) ==
  IF self.class = "ByteMaskedArray"
  THEN self.mask[i + 1] # (IF self.validwhen THEN 1 ELSE 0)
  ELSE self.index[i + 1] < 0

\* the content position entry i stands for
ContentPosition(i) ==
  IF self.class = "ByteMaskedArray" THEN i ELSE self.index[i + 1]

\* the number of retained entries before entry i
Rank(i) == Cardinality({h \in 0..(i - 1) : ~Missing(h)})

\* C25: the reduce_next kernels of the indexed and of the byte-masked layer
\* drop every missing entry: nextcarry lists the content positions of the
\* retained entries in input order, nextparents[m] is the parent of the m-th
\* retained entry, outindex[i] is the rank of entry i among the retained ones
\* or -1 when entry i is missing, and retained entries and -1s add up to length
C25_MissingDropped ==
  IndirectionPrepared =>
    /\ Len(frame.outindex) = Entries
    /\ Len(frame.nextcarry) = Rank(Entries)
    /\ Len(frame.nextparents) = Len(frame.nextcarry)
    /\ \A i \in 0..(Entries - 1) :
         IF Missing(i) THEN frame.outindex[i + 1] = -1
         ELSE /\ frame.outindex[i + 1] = Rank(i)
              /\ frame.nextcarry[Rank(i) + 1] = ContentPosition(i)
              /\ frame.nextparents[Rank(i) + 1] = args.parents[i + 1]
    /\ Len(frame.nextcarry)
         + Cardinality({i \in 1..Len(frame.outindex) : frame.outindex[i] = -1})
         = Entries

\* an indexed layer with a missing entry between two retained ones, the
\* second of them at content position 0
C25_Witness ==
  /\ IndirectionPrepared
  /\ self.class = "IndexedArray32"
  /\ self.index = <<2, -1, 0>>
  /\ frame.nextcarry = <<2, 0>>
  /\ frame.outindex = <<0, -1, 1>>
  /\ frame.nextparents = <<args.parents[1], args.parents[3]>>

\* ------------------------------------------------------------------ the non-local preparation

\* preparenext has run
Prepared == "nextcarry" \in DOMAIN frame

\* the sublist that holds element position p
SublistOf(p) ==
  CHOOSE i \in 0..(Len(self.offsets) - 2) :
    self.offsets[i + 1] <= p /\ p < self.offsets[i + 2]

\* the position of element p within its sublist
Within(p) == p - self.offsets[SublistOf(p) + 1]

\* the outer parent of element p
OuterParent(p) == args.parents[SublistOf(p) + 1]

\* nextcarry holds every element position of the layer once
CarriesEveryElement ==
  /\ Len(frame.nextcarry)
       = self.offsets[Len(self.offsets)] - self.offsets[1]
  /\ {frame.nextcarry[k] : k \in 1..Len(frame.nextcarry)}
       = self.offsets[1] .. (self.offsets[Len(self.offsets)] - 1)

\* maxnextparents is the largest value of a nextparents that is not empty
LargestNextparent ==
  frame.nextparents # <<>> =>
    /\ \E k \in 1..Len(frame.nextparents) :
         frame.nextparents[k] = frame.maxnextparents
    /\ \A k \in 1..Len(frame.nextparents) :
         frame.nextparents[k] <= frame.maxnextparents

\* within one position-within-sublist, nextcarry is by ascending outer parent
\* and nextparents does not decrease
AscendingParents ==
  \A k \in 1..(Len(frame.nextcarry) - 1) :
    Within(frame.nextcarry[k]) = Within(frame.nextcarry[k + 1]) =>
      /\ OuterParent(frame.nextcarry[k]) <= OuterParent(frame.nextcarry[k + 1])
      /\ frame.nextparents[k] <= frame.nextparents[k + 1]

SublistsWith(j, c) ==
  {i \in 0..(Len(self.offsets) - 2) :
     args.parents[i + 1] = j /\ Count(self.offsets, i) > c}

\* C27: after the non-local preparation distincts has maxcount * outlength
\* entries; for every group j in [0, outlength) and slot c in [0, maxcount),
\* distincts[j * maxcount + c] is -1 exactly when no sublist of group j has
\* more than c elements, and is otherwise the flat index of the c-th element
\* of a sublist of group j; every index at which distincts is written
\* (nextparents[k]) is within its length
C27_DistinctsBySlot ==
  Prepared =>
    /\ Len(frame.distincts) = frame.maxcount * args.outlength
    /\ \A j \in 0..(args.outlength - 1), c \in 0..(frame.maxcount - 1) :
         IF SublistsWith(j, c) = {}
         THEN frame.distincts[j * frame.maxcount + c + 1] = -1
         ELSE \E i \in SublistsWith(j, c) :
                frame.distincts[j * frame.maxcount + c + 1]
                  = self.offsets[i + 1] + c
    /\ \A k \in 1..Len(frame.nextparents) :
         /\ 0 <= frame.nextparents[k]
         /\ frame.nextparents[k] < Len(frame.distincts)

\* two groups, the first with two elements at most and the second with one:
\* slot 1 of the second group is absent
C27_Witness ==
  /\ Prepared
  /\ self.offsets = <<0, 2, 3>> /\ args.parents = <<0, 1>>
  /\ args.outlength = 2 /\ frame.maxcount = 2
  /\ frame.distincts = <<0, 1, 2, -1>>

\* ------------------------------------------------------------------ the starts of the local path

\* the local path of reduce_next has called the content, which has elements
LocalPassed ==
  /\ op = "reduce_next" /\ OnList /\ OnLocalPath
  /\ passed # None
  /\ length(passed.content) > 0

\* C28: on the local path of reduce_next the starts handed to the content
\* give, for every sublist i, the position of its first element in the
\* trimmed content handed over with them, starts[i] = offsets[i] - offsets[0],
\* so that for every element k of the trimmed content
\* k - starts[nextparents[k]] lies in [0, length of sublist nextparents[k]),
\* whatever offsets[0] is
C28_StartsOfTrimmed ==
  LocalPassed =>
    /\ Len(passed.starts) = Len(self.offsets) - 1
    /\ \A i \in 0..(Len(self.offsets) - 2) :
         passed.starts[i + 1] = self.offsets[i + 1] - self.offsets[1]
    /\ \A k \in 0..(length(passed.content) - 1) :
         /\ 0 <= k - passed.starts[passed.parents[k + 1] + 1]
         /\ k - passed.starts[passed.parents[k + 1] + 1]
              < Count(self.offsets, passed.parents[k + 1])

\* ------------------------------------------------------------------ offsets that do not start at zero

\* reduce_next has ended on an i64 layer whose offsets do not start at 0,
\* called with one parent for each of its sublists
ReducedFromLater ==
  /\ op = "reduce_next" /\ pc \in {"done", "thrown"}
  /\ receiver.class = "ListOffsetArray64"
  /\ receiver.offsets[1] > 0
  /\ Len(args.parents) = Len(receiver.offsets) - 1

\* what the same call returns on the compact form of the layer
OnCompactForm ==
  reduce_next(toListOffsetArray64(receiver, TRUE), args.how, args.negaxis,
              args.starts, args.parents, args.outlength, args.keepdims)

\* C29: reduce_next on a valid i64 list layer with offsets[0] > 0 returns
\* what reduce_next with the same arguments returns on its compact form
\* toListOffsetArray64(start_at_zero = true), for every reducer, argmin and
\* argmax included, on the local and on the non-local path
C29_SameAsCompactForm == ReducedFromLater => result = OnCompactForm

\* ------------------------------------------------------------------ conversion that keeps the start

\* toListOffsetArray64(start_at_zero = false) has been called on a valid layer
ConvertedAsItIs == op = "toListOffsetArray64" /\ ~args.start_at_zero

\* C30: toListOffsetArray64(start_at_zero = false) succeeds on every valid
\* list layer of any offset width and returns an i64 layer with as many
\* sublists holding the same elements in the same order; an i64 layer is
\* returned as it is, offsets[0] kept and no kernel run, and for the 32-bit
\* widths the offsets handed to broadcast_tooffsets64 start at 0, so that it
\* does not reject them.
C30_ConvertedAsItIs ==
  ConvertedAsItIs =>
    /\ pc = "returned"
    /\ result.class = "ListOffsetArray64"
    /\ Len(result.offsets) = Len(receiver.offsets)
    /\ ToList(result) = ToList(receiver)
    /\ IF receiver.class = "ListOffsetArray64"
       THEN result = receiver /\ kernels = <<>>
       ELSE /\ compact_offsets64(receiver, FALSE)[1] = 0
            /\ result.offsets = compact_offsets64(receiver, FALSE)
            /\ kernels = <<"compact_offsets64", "broadcast_tooffsets64">>

\* [[2, 4]] with 32-bit offsets [1, 3] over [1, 2, 4] becomes offsets [0, 2]
\* over [2, 4], though it was not asked to start at zero
C30_Witness ==
  /\ ConvertedAsItIs /\ pc = "returned"
  /\ receiver.class = "ListOffsetArray32"
  /\ receiver.offsets = <<1, 3>>
  /\ receiver.content = NumpyArray(<<1, 2, 4>>)
  /\ result = ListOffsetArray64(<<0, 2>>, NumpyArray(<<2, 4>>))

====
